---- MODULE Spec2Model ----
(***************************************************************************)
(* Model of the varsity2 semantic response cache (src/semantic_cache.py). *)
(*                                                                         *)
(* A Python dict is modelled as a sequence of <<key, value>> pairs with    *)
(* distinct keys, in insertion order (the order dict.items() iterates).    *)
(* A similarity is a float: either NaN or a number in units of 1/Scale.    *)
(* The embedding vectors are chosen so that every cosine the model forms   *)
(* is an exact multiple of 1/Scale, so the arithmetic below is exact.      *)
(***************************************************************************)
EXTENDS Integers, Sequences, FiniteSets, TLC

VARIABLES embeddings, responses, similarity_threshold, cache_file, ret

\* EnergyMonitor: the commands' behaviour at the last sample and the sample
\* returned; the monitor object, the clock, the shared readings file, the
\* running background samplers, the start() calls of the open window and the
\* last call's result
VARIABLES telemetry, sample, mon, now, readings_file, samplers, starts, probe_ret

\* ChatbotApp: the call in progress (or the last one) of each chat pane, and
\* the number of queries counted for each (with the per-query entries and
\* totals where the statistics are examined)
VARIABLES calls, queries

\* The threads inside add_to_cache; the last savings calculation; the
\* comparison log file, the threads inside run_comparison and the last
\* summary
VARIABLES writers, savings_ret, results_file, recorders, summary_ret

cache_vars == <<embeddings, responses, similarity_threshold, cache_file, ret>>

probe_vars == <<telemetry, sample, mon, now, readings_file, samplers, starts, probe_ret>>

app_vars == <<calls, queries>>

ledger_vars == <<writers, savings_ret, results_file, recorders, summary_ret>>

vars == <<cache_vars, probe_vars, app_vars, ledger_vars>>

\* A specification that does not use a component holds its variables at Unused
Unused == "unused"

ProbeUnused ==
    /\ telemetry = Unused /\ sample = Unused /\ mon = Unused /\ now = Unused
    /\ readings_file = Unused /\ samplers = Unused /\ starts = Unused
    /\ probe_ret = Unused

CacheUnused ==
    /\ embeddings = Unused /\ responses = Unused /\ similarity_threshold = Unused
    /\ cache_file = Unused /\ ret = Unused

AppUnused == calls = Unused /\ queries = Unused

WritersUnused == writers = Unused

SavingsUnused == savings_ret = Unused

LogUnused == results_file = Unused /\ recorders = Unused /\ summary_ret = Unused

LedgerUnused == WritersUnused /\ SavingsUnused /\ LogUnused

\* ---------------------------------------------------------------- bounds
MaxEntries == 2

\* ------------------------------------------------------------- universe
None == "None"

Scale == 100

Prompts == {"", "a", "b", "c", "z"}

Responses == {"r1", "r2"}

Thresholds == {-101, -100, 85, 100, 101}

\* The external embedding function (SentenceTransformer.encode), fixed for
\* one model version.  "" and "a" embed to parallel vectors, "c" to the
\* opposite direction, "z" to the zero vector.
embed_prompt(prompt) ==
    CASE prompt = ""  -> <<3, 4>>
      [] prompt = "a" -> <<6, 8>>
      [] prompt = "b" -> <<4, 3>>
      [] prompt = "c" -> <<-3, -4>>
      [] OTHER        -> <<0, 0>>

\* ------------------------------------------------------- dict operations
Keys(d) == {d[i][1] : i \in 1..Len(d)}

KeyList(d) == [i \in 1..Len(d) |-> d[i][1]]

IndexOf(d, k) == CHOOSE i \in 1..Len(d) : d[i][1] = k

DictGet(d, k) == d[IndexOf(d, k)][2]

\* d[k] = v : an existing key keeps its position, a new key goes last
DictSet(d, k, v) ==
    IF k \in Keys(d)
    THEN [d EXCEPT ![IndexOf(d, k)] = <<k, v>>]
    ELSE Append(d, <<k, v>>)

\* ------------------------------------------------------------ similarity
NaN == [nan |-> TRUE, v |-> 0]

Float(x) == [nan |-> FALSE, v |-> x]

\* IEEE comparisons: any comparison with NaN is false
FloatGt(a, b) == ~a.nan /\ ~b.nan /\ a.v > b.v

FloatGe(a, b) == ~a.nan /\ ~b.nan /\ a.v >= b.v

Dot(a, b) == a[1] * b[1] + a[2] * b[2]

\* np.linalg.norm; exact for the vectors of this model
Norm(a) == CHOOSE n \in 0..(Dot(a, a) + 1) : n * n <= Dot(a, a) /\ (n + 1) * (n + 1) > Dot(a, a)

\* np.dot(q, c) / (norm(q) * norm(c)); 0/0 is NaN (numpy warns, does not raise)
Similarity(q, c) ==
    IF Norm(q) * Norm(c) = 0
    THEN NaN
    ELSE Float((Dot(q, c) * Scale) \div (Norm(q) * Norm(c)))

\* --------------------------------------------------------------- lookup
\* The loop of find_similar_prompt over self.embeddings.items(), from entry i
\* on, carrying (max_similarity, most_similar_prompt).
RECURSIVE ScanEntries(_, _, _, _, _)
ScanEntries(embs, query_embedding, i, max_similarity, most_similar_prompt) ==
    IF i > Len(embs)
    THEN [max_similarity |-> max_similarity, most_similar_prompt |-> most_similar_prompt]
    ELSE LET similarity == Similarity(query_embedding, embs[i][2])
         IN  IF FloatGt(similarity, max_similarity)
             THEN ScanEntries(embs, query_embedding, i + 1, similarity, embs[i][1])
             ELSE ScanEntries(embs, query_embedding, i + 1, max_similarity, most_similar_prompt)

\* Faulty variants of find_similar_prompt, which the properties must tell
\* from it: `>` for `>=` in the threshold test,
find_similar_prompt_strict(embs, threshold, prompt) ==
    IF Len(embs) = 0
    THEN None
    ELSE LET scan == ScanEntries(embs, embed_prompt(prompt), 1, Float(-Scale), None)
         IN  IF FloatGt(scan.max_similarity, Float(threshold))
             THEN scan.most_similar_prompt
             ELSE None

\* the threshold test left out,
find_similar_prompt_unchecked(embs, threshold, prompt) ==
    IF Len(embs) = 0
    THEN None
    ELSE ScanEntries(embs, embed_prompt(prompt), 1, Float(-Scale), None).most_similar_prompt

\* no early return on an empty index, the best match starting as the query
find_similar_prompt_unguarded(embs, threshold, prompt) ==
    LET scan == ScanEntries(embs, embed_prompt(prompt), 1, Float(-Scale), prompt)
    IN  IF FloatGe(scan.max_similarity, Float(threshold))
        THEN scan.most_similar_prompt
        ELSE None

find_similar_prompt(embs, threshold, prompt) ==
    IF Len(embs) = 0
    THEN None
    ELSE LET scan == ScanEntries(embs, embed_prompt(prompt), 1, Float(-Scale), None)
         IN  IF FloatGe(scan.max_similarity, Float(threshold))
             THEN scan.most_similar_prompt
             ELSE None

\* Python truthiness of an Optional[str]: None and "" are both falsy
Truthy(x) == x # None /\ x # ""

KeyError == "KeyError"

get_response(embs, resps, threshold, prompt) ==
    LET similar_prompt == find_similar_prompt(embs, threshold, prompt)
    IN  IF Truthy(similar_prompt)
        THEN IF similar_prompt \in Keys(resps)
             THEN DictGet(resps, similar_prompt)
             ELSE KeyError
        ELSE None

\* ---------------------------------------------------------- persistence
\* pickle writes a dict as its items in order, key then value
PickleDump(d) == [i \in 1..(2 * Len(d)) |-> d[(i + 1) \div 2][2 - (i % 2)]]

PickleLoad(s) == [i \in 1..(Len(s) \div 2) |-> <<s[2 * i - 1], s[2 * i]>>]

\* The file: absent, unparsable, or a pickled object with some top-level keys
AbsentFile == [kind |-> "absent", keys |-> {}, embeddings |-> <<>>, responses |-> <<>>]

CorruptFile == [kind |-> "corrupt", keys |-> {}, embeddings |-> <<>>, responses |-> <<>>]

save_cache(embs, resps) ==
    [kind |-> "pickle", keys |-> {"embeddings", "responses"},
     embeddings |-> PickleDump(embs), responses |-> PickleDump(resps)]

\* load_cache run on an object whose fields currently are embs / resps.
\* Every exception is caught; an assignment made before it stays.
load_cache(file, embs, resps) ==
    IF file.kind = "absent"
    THEN [embeddings |-> embs, responses |-> resps]
    ELSE IF file.kind = "corrupt" \/ "embeddings" \notin file.keys
    THEN [embeddings |-> embs, responses |-> resps]
    ELSE IF "responses" \notin file.keys
    THEN [embeddings |-> PickleLoad(file.embeddings), responses |-> resps]
    ELSE [embeddings |-> PickleLoad(file.embeddings), responses |-> PickleLoad(file.responses)]

\* SemanticCache.__init__: both dicts start empty, then load_cache
Construct(file) == load_cache(file, <<>>, <<>>)

\* Files found at first start: none, a damaged one, one of another schema
\* (an object without the mappings, or with only one of them), or one
\* written by an earlier run of this program.
OldRunEmbeddings == <<<<"b", embed_prompt("b")>>>>

OldRunResponses == <<<<"b", "r1">>>>

InitialFiles ==
    { AbsentFile, CorruptFile,
      [kind |-> "pickle", keys |-> {}, embeddings |-> <<>>, responses |-> <<>>],
      [kind |-> "pickle", keys |-> {"embeddings"},
       embeddings |-> PickleDump(OldRunEmbeddings), responses |-> <<>>],
      [kind |-> "pickle", keys |-> {"responses"},
       embeddings |-> <<>>, responses |-> PickleDump(OldRunResponses)],
      save_cache(OldRunEmbeddings, OldRunResponses) }

\* ---------------------------------------------------------------- state
NoCall == [op |-> "__init__", prompt |-> None, response |-> None, value |-> None]

CacheInit ==
    /\ cache_file \in InitialFiles
    /\ similarity_threshold \in Thresholds
    /\ embeddings = Construct(cache_file).embeddings
    /\ responses = Construct(cache_file).responses
    /\ ret = NoCall
    /\ ProbeUnused
    /\ AppUnused
    /\ LedgerUnused

FindSimilarPrompt(prompt) ==
    /\ ret' = [op |-> "find_similar_prompt", prompt |-> prompt, response |-> None,
               value |-> find_similar_prompt(embeddings, similarity_threshold, prompt)]
    /\ UNCHANGED <<embeddings, responses, similarity_threshold, cache_file>>
    /\ UNCHANGED probe_vars
    /\ UNCHANGED app_vars
    /\ UNCHANGED ledger_vars

GetResponse(prompt) ==
    /\ ret' = [op |-> "get_response", prompt |-> prompt, response |-> None,
               value |-> get_response(embeddings, responses, similarity_threshold, prompt)]
    /\ UNCHANGED <<embeddings, responses, similarity_threshold, cache_file>>
    /\ UNCHANGED probe_vars
    /\ UNCHANGED app_vars
    /\ UNCHANGED ledger_vars

\* Faulty variants of add_to_cache: the file written before the response is
\* stored,
AddToCache_save_early(prompt, response) ==
    /\ prompt \in Keys(embeddings) \/ Len(embeddings) < MaxEntries
    /\ embeddings' = DictSet(embeddings, prompt, embed_prompt(prompt))
    /\ responses' = DictSet(responses, prompt, response)
    /\ cache_file' = save_cache(embeddings', responses)
    /\ ret' = [op |-> "add_to_cache", prompt |-> prompt, response |-> response, value |-> None]
    /\ UNCHANGED similarity_threshold
    /\ UNCHANGED probe_vars
    /\ UNCHANGED app_vars
    /\ UNCHANGED ledger_vars

\* and update-on-near-match: a prompt that an entry already matches replaces
\* that entry's response instead of becoming an entry
AddToCache_merge(prompt, response) ==
    LET matched == find_similar_prompt(embeddings, similarity_threshold, prompt)
    IN  /\ prompt \in Keys(embeddings) \/ Len(embeddings) < MaxEntries
        /\ embeddings' = IF matched = None
                         THEN DictSet(embeddings, prompt, embed_prompt(prompt))
                         ELSE embeddings
        /\ responses' = IF matched = None
                        THEN DictSet(responses, prompt, response)
                        ELSE DictSet(responses, matched, response)
        /\ cache_file' = save_cache(embeddings', responses')
        /\ ret' = [op |-> "add_to_cache", prompt |-> prompt, response |-> response, value |-> None]
        /\ UNCHANGED similarity_threshold
        /\ UNCHANGED probe_vars
        /\ UNCHANGED app_vars
        /\ UNCHANGED ledger_vars

\* and eviction: a new prompt put into a full cache replaces the oldest
\* entry
AddToCache_evict(prompt, response) ==
    LET full == prompt \notin Keys(embeddings) /\ Len(embeddings) >= MaxEntries
        embs == IF full THEN Tail(embeddings) ELSE embeddings
        resps == IF full THEN Tail(responses) ELSE responses
    IN  /\ embeddings' = DictSet(embs, prompt, embed_prompt(prompt))
        /\ responses' = DictSet(resps, prompt, response)
        /\ cache_file' = save_cache(embeddings', responses')
        /\ ret' = [op |-> "add_to_cache", prompt |-> prompt, response |-> response, value |-> None]
        /\ UNCHANGED similarity_threshold
        /\ UNCHANGED probe_vars
        /\ UNCHANGED app_vars
        /\ UNCHANGED ledger_vars

AddToCache(prompt, response) ==
    /\ prompt \in Keys(embeddings) \/ Len(embeddings) < MaxEntries
    /\ embeddings' = DictSet(embeddings, prompt, embed_prompt(prompt))
    /\ responses' = DictSet(responses, prompt, response)
    /\ cache_file' = save_cache(embeddings', responses')
    /\ ret' = [op |-> "add_to_cache", prompt |-> prompt, response |-> response, value |-> None]
    /\ UNCHANGED similarity_threshold
    /\ UNCHANGED probe_vars
    /\ UNCHANGED app_vars
    /\ UNCHANGED ledger_vars

\* The process ends and a new SemanticCache is constructed on the same file
Restart ==
    /\ embeddings' = Construct(cache_file).embeddings
    /\ responses' = Construct(cache_file).responses
    /\ ret' = NoCall
    /\ UNCHANGED <<similarity_threshold, cache_file>>
    /\ UNCHANGED probe_vars
    /\ UNCHANGED app_vars
    /\ UNCHANGED ledger_vars

CacheNext ==
    \/ \E prompt \in Prompts : FindSimilarPrompt(prompt)
    \/ \E prompt \in Prompts : GetResponse(prompt)
    \/ \E prompt \in Prompts, response \in Responses : AddToCache(prompt, response)
    \/ Restart

Spec == CacheInit /\ [][CacheNext]_vars

TypeOK ==
    /\ Keys(embeddings) \subseteq Prompts
    /\ Keys(responses) \subseteq Prompts
    /\ similarity_threshold \in Thresholds

\* ================================================================ claims
\* The stored embedding of a stored prompt, and its cosine to a query prompt
Score(prompt, stored) == Similarity(embed_prompt(prompt), DictGet(embeddings, stored))

IsLookup == ret.op = "find_similar_prompt"

\* Entries whose cosine to the query is a number
Comparable(prompt) == {k \in Keys(embeddings) : ~Score(prompt, k).nan}

\* The cosine of the best-scoring entry
BestScore(prompt) ==
    CHOOSE s \in {Score(prompt, k).v : k \in Comparable(prompt)} :
        \A k \in Comparable(prompt) : Score(prompt, k).v <= s

\* The earliest-inserted entry among those of maximum cosine
EarliestBest(prompt) ==
    LET i == CHOOSE i \in 1..Len(embeddings) :
                 /\ embeddings[i][1] \in Comparable(prompt)
                 /\ Score(prompt, embeddings[i][1]).v = BestScore(prompt)
                 /\ \A j \in 1..(i - 1) :
                        embeddings[j][1] \in Comparable(prompt)
                            => Score(prompt, embeddings[j][1]).v < BestScore(prompt)
    IN  embeddings[i][1]

\* C1 (as stated): a lookup of a stored prompt P with threshold <= 1.0
\* returns P itself, whatever else is stored.
C1_SelfLookupReturnsSelf ==
    (IsLookup /\ ret.prompt \in Keys(embeddings) /\ similarity_threshold <= Scale)
        => ret.value = ret.prompt

\* C1 (amended): a lookup of a stored prompt P whose embedding has non-zero
\* norm, with threshold <= 1.0, returns a stored prompt of cosine 1.0 to P:
\* P itself, or an entry stored before P whose embedding is parallel to P's.
C1_SelfLookupMatchesAtOne ==
    (/\ IsLookup
     /\ ret.prompt \in Keys(embeddings)
     /\ similarity_threshold <= Scale
     /\ Norm(embed_prompt(ret.prompt)) # 0)
        => /\ ret.value \in Keys(embeddings)
           /\ Score(ret.prompt, ret.value) = Float(Scale)
           /\ \/ ret.value = ret.prompt
              \/ IndexOf(embeddings, ret.value) < IndexOf(embeddings, ret.prompt)

\* A stored prompt, not the first entry, was looked up and found itself
C1_Witness ==
    /\ IsLookup
    /\ ret.prompt \in Keys(embeddings)
    /\ similarity_threshold = Scale
    /\ IndexOf(embeddings, ret.prompt) > 1
    /\ ret.value = ret.prompt

\* C2: on a non-empty index whose best-scoring entry has cosine s to the
\* query, lookup returns a match exactly when threshold <= s.
C2_InclusiveThreshold ==
    (IsLookup /\ Comparable(ret.prompt) # {})
        => (ret.value # None <=> similarity_threshold <= BestScore(ret.prompt))

\* C3: a returned match never scores strictly below the threshold.
C3_NoMatchBelowThreshold ==
    (IsLookup /\ ret.value # None)
        => /\ ret.value \in Keys(embeddings)
           /\ FloatGe(Score(ret.prompt, ret.value), Float(similarity_threshold))

\* A match was returned while another stored entry scores below the threshold
C3_Witness ==
    /\ IsLookup
    /\ ret.value # None
    /\ \E k \in Comparable(ret.prompt) : Score(ret.prompt, k).v < similarity_threshold

\* C4: whenever the threshold admits the maximum cosine, lookup returns the
\* entry of maximum cosine, the earliest-inserted one when several share it.
C4_EarliestMaximum ==
    (/\ IsLookup
     /\ Comparable(ret.prompt) # {}
     /\ similarity_threshold <= BestScore(ret.prompt))
        => ret.value = EarliestBest(ret.prompt)

\* C5: on an empty index lookup returns NoMatch for every query and threshold.
C5_EmptyIndexNoMatch ==
    (IsLookup /\ Len(embeddings) = 0) => ret.value = None

\* A lookup on the empty index with a threshold that every cosine passes
C5_Witness ==
    /\ IsLookup
    /\ Len(embeddings) = 0
    /\ similarity_threshold < -Scale

\* C6: get_response returns the stored response of the prompt lookup matches,
\* for every stored prompt string, and None only when lookup returns NoMatch.
C6_ResponseOfMatch ==
    ret.op = "get_response"
        => LET matched == find_similar_prompt(embeddings, similarity_threshold, ret.prompt)
           IN  /\ matched = None => ret.value = None
               /\ (matched # None /\ matched \in Keys(responses))
                      => ret.value = DictGet(responses, matched)

\* C7: the embedding index and the response store hold the same prompts.
C7_SameKeys == Keys(embeddings) = Keys(responses)

\* C8: after construction from a store that cannot be parsed (damaged, or
\* lacking one of the two mappings) both stores are empty.
Unparsable(file) ==
    \/ file.kind = "corrupt"
    \/ file.kind = "pickle" /\ file.keys # {"embeddings", "responses"}

C8_UnparsableStartsEmpty ==
    (ret.op = "__init__" /\ Unparsable(cache_file))
        => (embeddings = <<>> /\ responses = <<>>)

\* C9: after every insert the file holds exactly the two in-memory mappings:
\* a cache constructed from it has the same entries in the same order.
C9_RoundTrip ==
    ret.op = "add_to_cache"
        => /\ cache_file.kind = "pickle"
           /\ Construct(cache_file).embeddings = embeddings
           /\ Construct(cache_file).responses = responses

\* An insert into a cache that then holds several entries
C9_Witness ==
    /\ ret.op = "add_to_cache"
    /\ Len(embeddings) >= 2
    /\ Len(responses) >= 2

\* C10 (as stated): every insert grows the number of entries by one.
C10_AlwaysAppends ==
    [][ret'.op = "add_to_cache" => Len(embeddings') = Len(embeddings) + 1]_vars

\* C10 (amended): an insert of a prompt string that is not stored appends one
\* entry at the end, also when a stored entry of another text matches it above
\* the threshold; an insert of a stored prompt string keeps the number and the
\* order of the entries and replaces that entry's response.  No other entry
\* changes.
OthersKept(d, e, k) ==
    \A i \in 1..Len(d) : d[i][1] # k => (i <= Len(e) /\ e[i] = d[i])

C10_AppendsUnlessSameString ==
    [][ret'.op = "add_to_cache" =>
        /\ IF ret'.prompt \in Keys(embeddings)
           THEN KeyList(embeddings') = KeyList(embeddings)
           ELSE KeyList(embeddings') = Append(KeyList(embeddings), ret'.prompt)
        /\ IF ret'.prompt \in Keys(responses)
           THEN KeyList(responses') = KeyList(responses)
           ELSE KeyList(responses') = Append(KeyList(responses), ret'.prompt)
        /\ DictGet(responses', ret'.prompt) = ret'.response
        /\ OthersKept(embeddings, embeddings', ret'.prompt)
        /\ OthersKept(responses, responses', ret'.prompt)]_vars

\* The prompt inserted last is a new final entry although an entry stored
\* before it matches it above the threshold
C10_Witness ==
    /\ ret.op = "add_to_cache"
    /\ Len(embeddings) >= 2
    /\ embeddings[Len(embeddings)][1] = ret.prompt
    /\ similarity_threshold \in 0..Scale
    /\ \E i \in 1..(Len(embeddings) - 1) :
           FloatGe(Score(ret.prompt, embeddings[i][1]), Float(similarity_threshold))

\* ====================================================== power telemetry
\* Model of src/energy_monitor.py.  An optional number (a dict key that is
\* missing or holds None) is Nothing or Some(x).
Nothing == [has |-> FALSE, v |-> 0]

Some(x) == [has |-> TRUE, v |-> x]

\* What the telemetry commands do when one sample is taken.
\*   nvidia_smi   the bare `nvidia-smi` run of _check_nvidia_smi
\*   gpu_query    `nvidia-smi --query-gpu=power.draw`
\*   powermetrics, smc, top, vm_stat   the macOS commands
\* "missing" is FileNotFoundError, "nonzero" a non-zero exit status, "timeout"
\* TimeoutExpired, "unparsable" output whose number float() rejects, "noline"
\* output without the line looked for, "empty" no output.
Systems == {"Darwin", "Linux"}

Telemetry ==
    [system : Systems,
     nvidia_smi : {"missing", "oserror", "nonzero", "ok"},
     gpu_query : {"nonzero", "unparsable", "empty", "ok"},
     powermetrics : {"missing", "nonzero", "timeout", "unparsable", "ok"},
     smc : {"missing", "nonzero", "noline", "ok"},
     top : {"missing", "nonzero", "unparsable", "noline", "ok"},
     vm_stat : {"nonzero", "ok"}]

\* The readings the commands print when they work: GPU draw in W, CPU power
\* in mW (powermetrics), in W (smc), CPU load and memory use in percent
GpuWatts == 18

PowermetricsMilliwatts == 12000

SmcWatts == 24

TopCpuPercent == 60

VmStatPercent == 50

\* (cpu_usage / 100.0) * 10.0
CpuLoadWatts(cpu_usage) == (cpu_usage * 10) \div 100

Returned(x) == [raised |-> FALSE, value |-> x]

Raised == [raised |-> TRUE, value |-> Nothing]

\* The `top` fallback inside the outer except clause (lines 183-203)
TopFallback(t) == IF t.top = "ok" THEN Some(CpuLoadWatts(TopCpuPercent)) ELSE Nothing

get_macos_power_reading(t) ==
    CASE t.powermetrics = "missing" -> Raised
      [] t.powermetrics = "timeout" -> Returned(TopFallback(t))
      [] t.powermetrics = "ok" -> Returned(Some(PowermetricsMilliwatts \div 1000))
      [] t.powermetrics = "unparsable" -> Returned(Nothing)
      [] OTHER ->
            CASE t.smc = "ok" -> Returned(Some(SmcWatts))
              [] t.smc \in {"nonzero", "noline"} -> Returned(Nothing)
              [] OTHER ->
                    CASE t.top = "ok" -> Returned(Some(CpuLoadWatts(TopCpuPercent)))
                      [] t.top = "noline" -> Returned(Nothing)
                      [] t.top = "nonzero" -> Returned(TopFallback(t))
                      [] OTHER -> Raised

get_cpu_usage(t) == IF t.top = "ok" THEN Some(TopCpuPercent) ELSE Nothing

get_memory_usage(t) ==
    IF t.system = "Darwin" /\ t.vm_stat = "ok" THEN Some(VmStatPercent) ELSE Nothing

check_nvidia_smi(t) == t.nvidia_smi = "ok"

\* subprocess.run raising an OSError other than FileNotFoundError (the binary
\* cannot be executed, no process can be spawned): nothing catches it
check_nvidia_smi_raises(t) == t.nvidia_smi = "oserror"

\* A power sample (the dict _get_power_usage returns); NoSample is None
NoSample ==
    [type |-> "None", power_watts |-> Nothing, cpu_utilization |-> Nothing,
     memory_utilization |-> Nothing, timestamp |-> FALSE]

GenericSample == [NoSample EXCEPT !.type = "generic", !.timestamp = TRUE]

\* In place of a sample: the exception left _get_power_usage
RaisedOSError == [NoSample EXCEPT !.type = "OSError"]

get_power_usage(t) ==
    IF check_nvidia_smi_raises(t)
    THEN RaisedOSError
    ELSE IF check_nvidia_smi(t) /\ t.gpu_query = "ok"
    THEN [NoSample EXCEPT !.type = "nvidia_gpu", !.power_watts = Some(GpuWatts)]
    ELSE IF t.system = "Darwin" /\ ~get_macos_power_reading(t).raised
    THEN [NoSample EXCEPT !.type = "macos",
                          !.cpu_utilization = get_cpu_usage(t),
                          !.memory_utilization = get_memory_usage(t),
                          !.power_watts = get_macos_power_reading(t).value]
    ELSE GenericSample

\* ------------------------------------------------- taking one sample
ProbeIdle ==
    /\ mon = Unused /\ now = Unused /\ readings_file = Unused /\ samplers = Unused
    /\ starts = Unused /\ probe_ret = Unused

SampleInit ==
    /\ telemetry \in Telemetry
    /\ sample = NoSample
    /\ ProbeIdle
    /\ CacheUnused
    /\ AppUnused
    /\ LedgerUnused

GetPowerUsage ==
    /\ sample' = get_power_usage(telemetry)
    /\ UNCHANGED <<telemetry, mon, now, readings_file, samplers, starts, probe_ret>>
    /\ UNCHANGED cache_vars
    /\ UNCHANGED app_vars
    /\ UNCHANGED ledger_vars

SampleNext == GetPowerUsage

SampleSpec == SampleInit /\ [][SampleNext]_vars

\* C20: a sample is always returned, from the first source in priority order
\* that works: the GPU query, else the OS power counter, else the CPU-load
\* heuristic, else the timestamp-only sample.
GpuWorks(t) == t.nvidia_smi = "ok" /\ t.gpu_query = "ok"

OsCounterWorks(t) == t.system = "Darwin" /\ (t.powermetrics = "ok" \/ t.smc = "ok")

HeuristicWorks(t) == t.system = "Darwin" /\ t.top = "ok"

C20_FallsThroughInOrder ==
    sample # NoSample =>
        /\ GpuWorks(telemetry) => sample.type = "nvidia_gpu"
        /\ (~GpuWorks(telemetry) /\ OsCounterWorks(telemetry))
               => sample.type = "macos"
        /\ (~GpuWorks(telemetry) /\ ~OsCounterWorks(telemetry) /\ HeuristicWorks(telemetry))
               => sample.power_watts = Some(CpuLoadWatts(TopCpuPercent))
        /\ (~GpuWorks(telemetry) /\ ~OsCounterWorks(telemetry) /\ ~HeuristicWorks(telemetry))
               => sample = GenericSample

\* ================================================= measurement window
\* ---------------------------------------------------------------- bounds
MaxTicks == 1

MaxReadings == 1

MaxStarts == 2

MaxSamplers == 2

\* ------------------------------------------------------------- universe
\* The clock advances in steps of one hour, so that Wh values are whole
TickSeconds == 3600

\* CPU load, in percent, that a line of the readings file shows; Nothing is
\* a line float() rejects
ReadingLines == {Some(0), Some(60), Nothing}

\* The behaviours of the commands the windows are measured under: GPU query
\* working; powermetrics working; powermetrics refused and the CPU load
\* read from top; everything failing; powermetrics missing; nvidia-smi not
\* executable
WindowTelemetry(system) ==
    LET failing == [system |-> system, nvidia_smi |-> "missing", gpu_query |-> "nonzero",
                    powermetrics |-> "nonzero", smc |-> "nonzero", top |-> "nonzero",
                    vm_stat |-> "nonzero"]
    IN  { [failing EXCEPT !.nvidia_smi = "ok", !.gpu_query = "ok"],
          [failing EXCEPT !.powermetrics = "ok", !.top = "ok", !.vm_stat = "ok"],
          [failing EXCEPT !.smc = "missing", !.top = "ok"],
          failing,
          [failing EXCEPT !.powermetrics = "missing"],
          [failing EXCEPT !.nvidia_smi = "oserror"] }

AllFail(t) ==
    /\ ~GpuWorks(t)
    /\ t.powermetrics # "ok" /\ t.smc # "ok" /\ t.top # "ok" /\ t.vm_stat # "ok"

\* ------------------------------------------------------------ the object
FreshMonitor(system) ==
    [system |-> system, start_power |-> NoSample, start_time |-> Nothing,
     end_power |-> NoSample, end_time |-> Nothing]

AbsentReadings == [exists |-> FALSE, lines |-> <<>>]

\* start_time is assigned before the sample is taken, start_power after
start_monitoring(m, time, smp) ==
    IF smp = RaisedOSError
    THEN [m EXCEPT !.start_time = Some(time)]
    ELSE [m EXCEPT !.start_time = Some(time), !.start_power = smp]

\* _start_continuous_power_monitoring: the file is emptied, a sampler spawned
start_continuous_file(system, file) ==
    IF system = "Darwin" THEN [exists |-> TRUE, lines |-> <<>>] ELSE file

start_continuous_samplers(system, n) == IF system = "Darwin" THEN n + 1 ELSE n

RECURSIVE SumSeq(_)
SumSeq(q) == IF q = <<>> THEN 0 ELSE Head(q) + SumSeq(Tail(q))

\* The power_values list built from the readings file
PowerValues(lines) ==
    LET parsed == SelectSeq(lines, LAMBDA l : l.has)
    IN  [i \in 1..Len(parsed) |-> CpuLoadWatts(parsed[i].v)]

\* _stop_continuous_power_monitoring: the mean of the readings, or None
stop_continuous_power_monitoring(system, file) ==
    IF system = "Darwin" /\ file.exists /\ PowerValues(file.lines) # <<>>
    THEN Some(SumSeq(PowerValues(file.lines)) \div Len(PowerValues(file.lines)))
    ELSE Nothing

\* dict.get(key, 0)
GetOr0(x) == IF x.has THEN x.v ELSE 0

BaseKeys == {"start_timestamp", "end_timestamp", "duration_seconds", "system_type"}

PowerKeys == {"start_power_watts", "end_power_watts", "avg_power_watts",
              "energy_joules", "energy_wh"}

UtilizationKeys == {"start_cpu_utilization", "end_cpu_utilization",
                    "start_memory_utilization", "end_memory_utilization"}

BaseResult(duration_seconds) ==
    [keys |-> BaseKeys, duration_seconds |-> duration_seconds,
     start_power_watts |-> Nothing, end_power_watts |-> Nothing,
     avg_power_watts |-> Nothing, energy_joules |-> Nothing, energy_wh |-> Nothing]

\* The update with energy_wh computed without the duration (a fault the
\* properties must detect)
WithPower_wh_of_power(result, power_start, power_end, avg_power) ==
    [result EXCEPT !.keys = @ \cup PowerKeys,
                   !.start_power_watts = power_start,
                   !.end_power_watts = power_end,
                   !.avg_power_watts = Some(avg_power),
                   !.energy_joules = Some(avg_power * result.duration_seconds),
                   !.energy_wh = Some(avg_power \div 3600)]

\* result.update({...}) with the five power keys
WithPower(result, power_start, power_end, avg_power) ==
    [result EXCEPT !.keys = @ \cup PowerKeys,
                   !.start_power_watts = power_start,
                   !.end_power_watts = power_end,
                   !.avg_power_watts = Some(avg_power),
                   !.energy_joules = Some(avg_power * result.duration_seconds),
                   !.energy_wh = Some((avg_power * result.duration_seconds) \div 3600)]

\* end_monitoring going by the start sample's type whatever the end sample's
\* (a fault the properties must detect)
end_monitoring_result_any_type(m, avg_power) ==
    LET duration_seconds == IF m.start_time.has THEN m.end_time.v - m.start_time.v ELSE 0
        result == BaseResult(duration_seconds)
        power_start == m.start_power.power_watts
        power_end == m.end_power.power_watts
    IN  IF m.start_power = NoSample \/ m.end_power = NoSample
        THEN result
        ELSE IF m.start_power.type = "nvidia_gpu"
        THEN WithPower(result, power_start, power_end,
                       (GetOr0(power_start) + GetOr0(power_end)) \div 2)
        ELSE IF m.start_power.type \in {"macos", "linux"}
        THEN LET with_util == [result EXCEPT !.keys = @ \cup UtilizationKeys]
             IN  IF avg_power.has
                 THEN WithPower(with_util, power_start, power_end, avg_power.v)
                 ELSE IF power_start.has /\ power_end.has
                 THEN WithPower(with_util, power_start, power_end,
                                (power_start.v + power_end.v) \div 2)
                 ELSE with_util
        ELSE result

\* The dict end_monitoring returns; m is the monitor with end_time and
\* end_power already set, avg_power the mean of the continuous readings
end_monitoring_result(m, avg_power) ==
    LET duration_seconds == IF m.start_time.has THEN m.end_time.v - m.start_time.v ELSE 0
        result == BaseResult(duration_seconds)
        power_start == m.start_power.power_watts
        power_end == m.end_power.power_watts
    IN  IF m.start_power = NoSample \/ m.end_power = NoSample
           \/ m.start_power.type # m.end_power.type
        THEN result
        ELSE IF m.start_power.type = "nvidia_gpu"
        THEN WithPower(result, power_start, power_end,
                       (GetOr0(power_start) + GetOr0(power_end)) \div 2)
        ELSE IF m.start_power.type \in {"macos", "linux"}
        THEN LET with_util == [result EXCEPT !.keys = @ \cup UtilizationKeys]
             IN  IF avg_power.has
                 THEN WithPower(with_util, power_start, power_end, avg_power.v)
                 ELSE IF power_start.has /\ power_end.has
                 THEN WithPower(with_util, power_start, power_end,
                                (power_start.v + power_end.v) \div 2)
                 ELSE with_util
        ELSE result

\* result is meaningful only when nothing was raised
end_monitoring(m, time, smp, avg_power) ==
    LET ended == [m EXCEPT !.end_time = Some(time), !.end_power = smp]
    IN  IF smp = RaisedOSError
        THEN [mon |-> [m EXCEPT !.end_time = Some(time)], raised |-> TRUE,
              result |-> BaseResult(0)]
        ELSE [mon |-> ended, raised |-> FALSE,
              result |-> end_monitoring_result(ended, avg_power)]

\* ---------------------------------------------------------------- state
\* The start_monitoring calls since the last end_monitoring: how many, and
\* the time and the telemetry of the last one
NoStarts == [calls |-> 0, last |-> <<>>]

\* The last call on the monitor: what it returned or that it raised, and,
\* for end_monitoring, the start_monitoring calls it closes and the mean of
\* the continuous readings
NoProbeCall ==
    [op |-> "__init__", raised |-> FALSE, result |-> BaseResult(0),
     window |-> NoStarts, continuous |-> Nothing]

\* The readings file may be left over from an earlier process
ProbeInit ==
    /\ \E system \in Systems :
          /\ mon = FreshMonitor(system)
          /\ telemetry \in WindowTelemetry(system)
    /\ sample = NoSample
    /\ now = 0
    /\ readings_file \in {AbsentReadings, [exists |-> TRUE, lines |-> <<Some(60)>>]}
    /\ samplers = 0
    /\ starts = NoStarts
    /\ probe_ret = NoProbeCall
    /\ CacheUnused
    /\ AppUnused
    /\ LedgerUnused

StartMonitoring(t) ==
    LET smp == get_power_usage(t)
        raised == smp = RaisedOSError
    IN  /\ starts.calls < MaxStarts
        /\ start_continuous_samplers(mon.system, samplers) <= MaxSamplers
        /\ telemetry' = t
        /\ mon' = start_monitoring(mon, now, smp)
        /\ readings_file' = IF raised THEN readings_file
                            ELSE start_continuous_file(mon.system, readings_file)
        /\ samplers' = IF raised THEN samplers
                       ELSE start_continuous_samplers(mon.system, samplers)
        /\ starts' = [calls |-> starts.calls + 1,
                      last |-> <<[time |-> now, telemetry |-> t, raised |-> raised]>>]
        /\ probe_ret' = [NoProbeCall EXCEPT !.op = "start_monitoring", !.raised = raised]
        /\ UNCHANGED <<now, sample>>
        /\ UNCHANGED cache_vars
        /\ UNCHANGED app_vars
        /\ UNCHANGED ledger_vars

EndMonitoring(t) ==
    LET avg_power == stop_continuous_power_monitoring(mon.system, readings_file)
        ended == end_monitoring(mon, now, get_power_usage(t), avg_power)
    IN  /\ telemetry' = t
        /\ mon' = ended.mon
        /\ samplers' = IF mon.system = "Darwin" /\ ~ended.raised THEN 0 ELSE samplers
        /\ starts' = NoStarts
        /\ probe_ret' = [op |-> "end_monitoring", raised |-> ended.raised,
                         result |-> ended.result, window |-> starts,
                         continuous |-> IF ended.raised THEN Nothing ELSE avg_power]
        /\ UNCHANGED <<now, readings_file, sample>>
        /\ UNCHANGED cache_vars
        /\ UNCHANGED app_vars
        /\ UNCHANGED ledger_vars

\* A running sampler appends one line of `top` output to the readings file
SamplerWrites(line) ==
    /\ samplers > 0
    /\ readings_file.exists
    /\ Len(readings_file.lines) < MaxReadings
    /\ readings_file' = [readings_file EXCEPT !.lines = Append(@, line)]
    /\ UNCHANGED <<telemetry, sample, mon, now, samplers, starts, probe_ret>>
    /\ UNCHANGED cache_vars
    /\ UNCHANGED app_vars
    /\ UNCHANGED ledger_vars

\* datetime.now() is the local wall clock: time passes, and the clock can be
\* set back (a correction, the end of daylight saving time)
Tick ==
    /\ now < MaxTicks * TickSeconds
    /\ now' = now + TickSeconds
    /\ UNCHANGED <<telemetry, sample, mon, readings_file, samplers, starts, probe_ret>>
    /\ UNCHANGED cache_vars
    /\ UNCHANGED app_vars
    /\ UNCHANGED ledger_vars

ClockSetBack ==
    /\ now > 0
    /\ now' = now - TickSeconds
    /\ UNCHANGED <<telemetry, sample, mon, readings_file, samplers, starts, probe_ret>>
    /\ UNCHANGED cache_vars
    /\ UNCHANGED app_vars
    /\ UNCHANGED ledger_vars

ProbeNext ==
    \/ \E t \in WindowTelemetry(mon.system) : StartMonitoring(t)
    \/ \E t \in WindowTelemetry(mon.system) : EndMonitoring(t)
    \/ \E line \in ReadingLines : SamplerWrites(line)
    \/ Tick
    \/ ClockSetBack

ProbeSpec == ProbeInit /\ [][ProbeNext]_vars

\* ------------------------------------------- properties of the window
Stopped == probe_ret.op = "end_monitoring" /\ ~probe_ret.raised

\* A field of the returned dict holds a number
Reports(key, field) == key \in probe_ret.result.keys /\ field.has

NoPowerReported ==
    /\ ~Reports("avg_power_watts", probe_ret.result.avg_power_watts)
    /\ ~Reports("energy_joules", probe_ret.result.energy_joules)
    /\ ~Reports("energy_wh", probe_ret.result.energy_wh)

LastStart == probe_ret.window.last[1]

\* C14: a start followed by a stop never raises and reports a duration
\* >= 0 whatever the telemetry commands do, and when every source fails at
\* the start and at the stop the result has no average power and no energy.
C14_StartStopNeverRaises ==
    /\ probe_ret.op = "start_monitoring" => ~probe_ret.raised
    /\ (probe_ret.op = "end_monitoring" /\ probe_ret.window.calls > 0) =>
          /\ ~probe_ret.raised
          /\ probe_ret.result.duration_seconds >= 0
          /\ (AllFail(LastStart.telemetry) /\ AllFail(telemetry)) => NoPowerReported

\* C15: a stop after two starts with no stop in between reports the
\* duration since the second start and holds the second start's sample as
\* its baseline.
C15_MeasuresFromLastStart ==
    (Stopped /\ probe_ret.window.calls >= 2) =>
        /\ probe_ret.result.duration_seconds = mon.end_time.v - LastStart.time
        /\ mon.start_power = get_power_usage(LastStart.telemetry)

\* C16: a new monitor holds no start and no end sample, and a stop on a
\* monitor that was never started does not raise and reports duration 0 and
\* none of the power and energy fields, whatever the telemetry commands do.
C16_StopBeforeStart ==
    /\ probe_ret.op = "__init__" =>
          mon.start_power = NoSample /\ mon.end_power = NoSample
    /\ (probe_ret.op = "end_monitoring" /\ ~mon.start_time.has) =>
          /\ ~probe_ret.raised
          /\ probe_ret.result.duration_seconds = 0
          /\ probe_ret.result.keys \cap PowerKeys = {}

SameSourceBothPower ==
    /\ mon.start_power.type = mon.end_power.type
    /\ mon.start_power.power_watts.has
    /\ mon.end_power.power_watts.has

\* C17: the average power of a stop is the mean of the continuous readings
\* whenever there are any, whatever the types of the two samples; without
\* readings it is the average of the two samples' power when they have the
\* same type and both have power, and is absent otherwise.
C17_PrefersContinuousMean ==
    Stopped =>
        IF probe_ret.continuous.has
        THEN probe_ret.result.avg_power_watts = probe_ret.continuous
        ELSE IF SameSourceBothPower
        THEN probe_ret.result.avg_power_watts =
                Some((mon.start_power.power_watts.v + mon.end_power.power_watts.v) \div 2)
        ELSE ~Reports("avg_power_watts", probe_ret.result.avg_power_watts)

MixedSources ==
    /\ Stopped
    /\ mon.start_power # NoSample
    /\ mon.start_power.type # mon.end_power.type

\* C18: when the start sample and the end sample are of different types,
\* the stop reports no average power and no energy, and still the duration.
C18_MixedSourcesNoPower ==
    MixedSources =>
        /\ NoPowerReported
        /\ "duration_seconds" \in probe_ret.result.keys

\* Mixed types with power in both samples and continuous readings at hand
C18_Witness ==
    /\ MixedSources
    /\ mon.start_power.power_watts.has
    /\ mon.end_power.power_watts.has
    /\ probe_ret.continuous.has

\* C19: every result of a stop has the duration; it has energy_joules and
\* energy_wh exactly when it has avg_power_watts, and then energy_joules is
\* avg_power_watts * duration_seconds and energy_wh is energy_joules / 3600.
C19_EnergyFromAveragePower ==
    Stopped =>
        LET r == probe_ret.result
        IN  /\ "duration_seconds" \in r.keys
            /\ Reports("energy_joules", r.energy_joules)
                  <=> Reports("avg_power_watts", r.avg_power_watts)
            /\ Reports("energy_wh", r.energy_wh)
                  <=> Reports("avg_power_watts", r.avg_power_watts)
            /\ Reports("avg_power_watts", r.avg_power_watts) =>
                  /\ r.energy_joules.v = r.avg_power_watts.v * r.duration_seconds
                  /\ r.energy_wh.v * 3600 = r.energy_joules.v

C19_Witness ==
    /\ Stopped
    /\ Reports("avg_power_watts", probe_ret.result.avg_power_watts)
    /\ probe_ret.result.avg_power_watts.v > 0
    /\ probe_ret.result.duration_seconds > 0

\* C21: at most one background sampler runs at any time, no sampler runs
\* after a stop, and the readings a stop averages were written after a start
\* of the window the stop closes.
C21_AtMostOneSampler ==
    /\ samplers <= 1
    /\ probe_ret.op = "end_monitoring" => samplers = 0
    /\ (probe_ret.op = "end_monitoring" /\ probe_ret.continuous.has)
          => probe_ret.window.calls > 0

\* ======================================================== the chat panes
\* ---------------------------------------------------------------- bounds
MaxQueries == 1

\* ------------------------------------------------------------- universe
\* The cached pane runs process_cached_only, the uncached pane
\* process_uncached_only
Sides == {"cached", "uncached"}

Messages == {"", " ", "a", "c"}

\* str.strip() on the messages above
Strip(message) == IF message = " " THEN "" ELSE message

\* The history the pane passes in
Histories == {<<>>, <<[role |-> "user", content |-> "c"]>>}

\* generate_response: None on an error, else the text of the reply, which
\* is "" when the reply has no "response" field
Generated == {None, "", "r2"}

\* semantic_threshold: the default and two values that accept less and more
AppThresholds == {-100, 85, 101}

\* ---------------------------------------------------------------- state
\* pc is the statement the call is at; lookup and generated tell what the
\* call has done so far, window the state of its measurement, before the
\* cache when the call began, returned the history it gave back
CacheNow == [embeddings |-> embeddings, responses |-> responses, cache_file |-> cache_file]

NoPaneCall ==
    [pc |-> "idle", message |-> "", history |-> <<>>, response |-> None,
     lookup |-> "none", generated |-> 0, inserted |-> FALSE, window |-> "none",
     raised |-> FALSE, before |-> <<>>, returned |-> <<>>]

AppInit ==
    /\ cache_file \in InitialFiles
    /\ similarity_threshold \in AppThresholds
    /\ embeddings = Construct(cache_file).embeddings
    /\ responses = Construct(cache_file).responses
    /\ ret = NoCall
    /\ calls = [side \in Sides |-> NoPaneCall]
    /\ queries = [side \in Sides |-> 0]
    /\ ProbeUnused
    /\ LedgerUnused

\* `return "", history`, from the blank check, the end of the try block or
\* the except clause
ReturnHistory(call, raised) ==
    [call EXCEPT !.pc = "returned", !.raised = raised, !.returned = call.history]

\* The blank check, then the try block is entered
Begin(side, message, history) ==
    LET call == [NoPaneCall EXCEPT !.message = message, !.history = history,
                                   !.before = <<CacheNow>>]
    IN  /\ calls[side].pc \in {"idle", "returned"}
        /\ queries[side] < MaxQueries
        /\ side = "cached" => Len(embeddings) < MaxEntries
        /\ calls' = [calls EXCEPT ![side] =
                        IF Strip(message) = ""
                        THEN ReturnHistory(call, FALSE)
                        ELSE [call EXCEPT !.pc = "start_monitoring"]]
        /\ UNCHANGED queries
        /\ UNCHANGED cache_vars
        /\ UNCHANGED probe_vars
        /\ UNCHANGED ledger_vars

\* self.energy_monitor.start_monitoring(), which returns or raises
StartProbe(side, raises) ==
    /\ calls[side].pc = "start_monitoring"
    /\ calls' = [calls EXCEPT ![side] =
                    IF raises
                    THEN ReturnHistory(@, TRUE)
                    ELSE [@ EXCEPT !.window = "open",
                                   !.pc = IF side = "cached" THEN "get_response"
                                          ELSE "generate_response"]]
    /\ UNCHANGED queries
    /\ UNCHANGED cache_vars
    /\ UNCHANGED probe_vars
    /\ UNCHANGED ledger_vars

\* cached_response = self.semantic_cache.get_response(message)
Lookup ==
    LET call == calls["cached"]
        cached_response ==
            get_response(embeddings, responses, similarity_threshold, call.message)
    IN  /\ call.pc = "get_response"
        /\ calls' = [calls EXCEPT !["cached"] =
                        IF cached_response = KeyError
                        THEN ReturnHistory([call EXCEPT !.lookup = "raised"], TRUE)
                        ELSE IF Truthy(cached_response)
                        THEN [call EXCEPT !.lookup = "hit", !.response = cached_response,
                                          !.pc = "end_monitoring"]
                        ELSE [call EXCEPT !.lookup = "miss", !.pc = "generate_response"]]
        /\ UNCHANGED queries
        /\ UNCHANGED cache_vars
        /\ UNCHANGED probe_vars
        /\ UNCHANGED ledger_vars

\* Faulty variants of the generator call of the cached pane: a failed call
\* repeated once,
Generate_retry(side, outcome) ==
    LET call == calls[side]
    IN  /\ call.pc = "generate_response"
        /\ outcome \in Generated
        /\ calls' = [calls EXCEPT ![side] =
                        [call EXCEPT !.response = outcome,
                                     !.generated = IF outcome = None THEN @ + 2 ELSE @ + 1,
                                     !.pc = IF side = "cached" /\ Truthy(outcome)
                                            THEN "add_to_cache" ELSE "end_monitoring"]]
        /\ UNCHANGED queries
        /\ UNCHANGED cache_vars
        /\ UNCHANGED probe_vars
        /\ UNCHANGED ledger_vars

\* and a reply stored whatever it is
Generate_store_all(side, outcome) ==
    LET call == calls[side]
    IN  /\ call.pc = "generate_response"
        /\ outcome \in Generated
        /\ calls' = [calls EXCEPT ![side] =
                        [call EXCEPT !.response = outcome, !.generated = @ + 1,
                                     !.pc = IF side = "cached"
                                            THEN "add_to_cache" ELSE "end_monitoring"]]
        /\ UNCHANGED queries
        /\ UNCHANGED cache_vars
        /\ UNCHANGED probe_vars
        /\ UNCHANGED ledger_vars

\* self.ollama.generate_response(message); the cached pane goes on to
\* add_to_cache `if cached_response:`
Generate(side, outcome) ==
    LET call == calls[side]
    IN  /\ call.pc = "generate_response"
        /\ outcome \in Generated
        /\ calls' = [calls EXCEPT ![side] =
                        [call EXCEPT !.response = outcome, !.generated = @ + 1,
                                     !.pc = IF side = "cached" /\ Truthy(outcome)
                                            THEN "add_to_cache" ELSE "end_monitoring"]]
        /\ UNCHANGED queries
        /\ UNCHANGED cache_vars
        /\ UNCHANGED probe_vars
        /\ UNCHANGED ledger_vars

\* self.semantic_cache.add_to_cache(message, cached_response)
Insert ==
    LET call == calls["cached"]
    IN  /\ call.pc = "add_to_cache"
        /\ embeddings' = DictSet(embeddings, call.message, embed_prompt(call.message))
        /\ responses' = DictSet(responses, call.message, call.response)
        /\ cache_file' = save_cache(embeddings', responses')
        /\ calls' = [calls EXCEPT !["cached"] =
                        [call EXCEPT !.inserted = TRUE, !.pc = "end_monitoring"]]
        /\ UNCHANGED <<similarity_threshold, ret, queries>>
        /\ UNCHANGED probe_vars
        /\ UNCHANGED ledger_vars

\* energy_data = self.energy_monitor.end_monitoring(), then the history with
\* the exchange appended and the statistics, `if response:`
EndProbe(side, raises) ==
    LET call == calls[side]
        new_history == call.history \o <<[role |-> "user", content |-> call.message],
                                         [role |-> "assistant", content |-> call.response]>>
    IN  /\ call.pc = "end_monitoring"
        /\ calls' = [calls EXCEPT ![side] =
                        IF raises
                        THEN ReturnHistory(call, TRUE)
                        ELSE IF Truthy(call.response)
                        THEN [call EXCEPT !.pc = "returned", !.window = "closed",
                                          !.returned = new_history]
                        ELSE ReturnHistory([call EXCEPT !.window = "closed"], FALSE)]
        /\ queries' = IF ~raises /\ Truthy(call.response)
                      THEN [queries EXCEPT ![side] = @ + 1]
                      ELSE queries
        /\ UNCHANGED cache_vars
        /\ UNCHANGED probe_vars
        /\ UNCHANGED ledger_vars

AppNext ==
    \/ \E side \in Sides, message \in Messages, history \in Histories :
          Begin(side, message, history)
    \/ \E side \in Sides, raises \in BOOLEAN : StartProbe(side, raises)
    \/ Lookup
    \/ \E side \in Sides, outcome \in Generated : Generate(side, outcome)
    \/ Insert
    \/ \E side \in Sides, raises \in BOOLEAN : EndProbe(side, raises)

AppSpec == AppInit /\ [][AppNext]_vars

\* ------------------------------------------- properties of the panes
\* What the lookup of the call found in the cache the call began with
LookupOf(call) ==
    get_response(call.before[1].embeddings, call.before[1].responses,
                 similarity_threshold, call.message)

GeneratorFailed(call) == call.generated > 0 /\ call.response = None

\* C11: when the generator returns None in the cached pane's call, nothing
\* is inserted and the cache and its file are as before the call, the
\* generator was called once, and the call returns the history it was given.
C11_FailedGenerationLeavesCache ==
    LET call == calls["cached"]
    IN  GeneratorFailed(call) =>
            /\ call.generated = 1
            /\ ~call.inserted
            /\ CacheNow = call.before[1]
            /\ call.pc = "returned" => call.returned = call.history

\* A failed generation on a non-empty cache with a non-empty history
C11_Witness ==
    LET call == calls["cached"]
    IN  /\ GeneratorFailed(call)
        /\ call.pc = "returned"
        /\ ~call.raised
        /\ call.history # <<>>
        /\ embeddings # <<>>

\* The parts of C12 that do not depend on what counts as a result
OnlyOnMissAndOnce(call) ==
    /\ call.generated > 0 => (LookupOf(call) = None /\ call.generated = 1)
    /\ (call.inserted /\ call.pc = "end_monitoring") => call.window = "open"
    /\ call.window = "closed" => call.pc = "returned"
    /\ (call.lookup = "hit") =>
          (call.generated = 0 /\ ~call.inserted /\ CacheNow = call.before[1])

StoredUnderPrompt(call) ==
    /\ call.inserted
    /\ call.message \in Keys(embeddings)
    /\ call.message \in Keys(responses)
    /\ DictGet(responses, call.message) = call.response

\* C12: the cached pane calls the generator only when the lookup found
\* nothing, and once; what the generator returns, unless it is the failure
\* value None, is stored under the message before the measurement is ended;
\* when the lookup found a response the generator is not called and the
\* cache is as before.
C12_SuccessfulResultInserted ==
    LET call == calls["cached"]
    IN  /\ OnlyOnMissAndOnce(call)
        /\ (call.generated > 0 /\ call.response # None
               /\ call.pc \in {"end_monitoring", "returned"})
             => StoredUnderPrompt(call)

\* C12 as the code has it: the reply is stored when it is a non-empty text,
\* and an empty reply is treated like a failure.
C12_NonEmptyResultInserted ==
    LET call == calls["cached"]
    IN  /\ OnlyOnMissAndOnce(call)
        /\ (call.generated > 0 /\ Truthy(call.response)
               /\ call.pc \in {"end_monitoring", "returned"})
             => StoredUnderPrompt(call)
        /\ (call.generated > 0 /\ ~Truthy(call.response)) => ~call.inserted

\* A miss whose reply was stored and whose measurement was ended
C12_Witness ==
    LET call == calls["cached"]
    IN  /\ call.pc = "returned"
        /\ call.lookup = "miss"
        /\ call.response = "r2"
        /\ StoredUnderPrompt(call)
        /\ call.window = "closed"

\* C13: every call of the uncached pane calls the generator, and no step of
\* it changes the cache or its file.
C13_BypassAlwaysGenerates ==
    /\ [](calls["uncached"].pc = "returned" => calls["uncached"].generated = 1)
    /\ [][calls'["uncached"] # calls["uncached"]
            => UNCHANGED <<embeddings, responses, cache_file>>]_vars

\* ============================================================ savings
\* ------------------------------------------------------------- universe
\* Energy is counted in 1/10000 Wh, time in 1/100 s. The stats of a pane are
\* {} before its first counted query, and have both keys afterwards; 0 is
\* the energy of a measurement without power data.
StatsEnergies == {Nothing, Some(0), Some(4), Some(12)}

StatsDurations == {Nothing, Some(0), Some(150)}

PaneStats == [energy_wh : StatsEnergies, duration_seconds : StatsDurations]

\* dict.get(key, default)
Get(x, default) == IF x.has THEN x.v ELSE default

\* round(n / d) to an integer, a tie going to the even side
Round(n, d) ==
    LET q == n \div d
        r == n % d
    IN  IF 2 * r < d THEN q
        ELSE IF 2 * r > d THEN q + 1
        ELSE IF q % 2 = 0 THEN q ELSE q + 1

\* One Wh in units of energy, the default of uncached_stats.get('energy_wh', 1)
WhUnits == 10000

\* The dict _calculate_savings returns: energy_saved_wh in 1/1000 Wh,
\* time_saved_seconds in 1/100 s, carbon_saved_g in 1/100 g,
\* trees_equivalent in 1/10000, percentage_saved in 1/10 percent
NoSavings ==
    [energy_saved_wh |-> 0, time_saved_seconds |-> 0, carbon_saved_g |-> 0,
     trees_equivalent |-> 0, percentage_saved |-> 0]

calculate_savings_raises(cached_stats, uncached_stats) ==
    Get(uncached_stats.energy_wh, WhUnits) = 0

calculate_savings(cached_stats, uncached_stats) ==
    LET energy_saved == Get(uncached_stats.energy_wh, 0) - Get(cached_stats.energy_wh, 0)
        time_saved == Get(uncached_stats.duration_seconds, 0)
                         - Get(cached_stats.duration_seconds, 0)
    IN  [energy_saved_wh |-> Round(energy_saved, 10),
         time_saved_seconds |-> time_saved,
         carbon_saved_g |-> Round(energy_saved * 475, 100000),
         trees_equivalent |-> Round(energy_saved * 475 * 85, 10000000),
         percentage_saved |->
             Round((Get(uncached_stats.energy_wh, 0) - Get(cached_stats.energy_wh, 0)) * 1000,
                   Get(uncached_stats.energy_wh, WhUnits))]

\* ---------------------------------------------------------------- state
NoSavingsCall ==
    [op |-> "__init__", cached_stats |-> [energy_wh |-> Nothing, duration_seconds |-> Nothing],
     uncached_stats |-> [energy_wh |-> Nothing, duration_seconds |-> Nothing],
     raised |-> FALSE, result |-> NoSavings]

SavingsInit ==
    /\ savings_ret = NoSavingsCall
    /\ CacheUnused
    /\ ProbeUnused
    /\ AppUnused
    /\ WritersUnused
    /\ LogUnused

\* The division by uncached_stats.get('energy_wh', 1) raises ZeroDivisionError
CalculateSavings(cached_stats, uncached_stats) ==
    /\ savings_ret' =
          [op |-> "_calculate_savings", cached_stats |-> cached_stats,
           uncached_stats |-> uncached_stats,
           raised |-> calculate_savings_raises(cached_stats, uncached_stats),
           result |-> IF calculate_savings_raises(cached_stats, uncached_stats)
                      THEN NoSavings
                      ELSE calculate_savings(cached_stats, uncached_stats)]
    /\ UNCHANGED <<writers, results_file, recorders, summary_ret>>
    /\ UNCHANGED cache_vars
    /\ UNCHANGED probe_vars
    /\ UNCHANGED app_vars

SavingsNext ==
    \E cached_stats \in PaneStats, uncached_stats \in PaneStats :
        CalculateSavings(cached_stats, uncached_stats)

SavingsSpec == SavingsInit /\ [][SavingsNext]_vars

Calculated == savings_ret.op = "_calculate_savings"

\* C24: with an uncached energy of 0, absent or present as 0, the savings
\* are calculated without an exception and percentage_saved is 0.
C24_ZeroUncachedGivesZero ==
    (Calculated /\ Get(savings_ret.uncached_stats.energy_wh, 0) = 0) =>
        /\ ~savings_ret.raised
        /\ savings_ret.result.percentage_saved = 0

\* C25: energy_saved_wh is the uncached energy minus the cached energy,
\* exactly, and so negative whenever the cached energy is the larger.
C25_ExactDifference ==
    Calculated =>
        LET diff == Get(savings_ret.uncached_stats.energy_wh, 0)
                       - Get(savings_ret.cached_stats.energy_wh, 0)
        IN  /\ ~savings_ret.raised
            /\ savings_ret.result.energy_saved_wh * 10 = diff
            /\ diff < 0 => savings_ret.result.energy_saved_wh < 0

\* ===================================================== comparison log
\* ---------------------------------------------------------------- bounds
MaxRecords == 2

\* ------------------------------------------------------------- universe
\* The threads that call run_comparison, each with a prompt of its own
Recorders == {1, 2}

PromptLength(th) == th

\* datetime.now(), in days
Days == 0..2

\* The metrics of the two responses of a comparison: energy in Wh, duration
\* in s; {} has neither key
NoMetrics == [energy_wh |-> Nothing, duration_seconds |-> Nothing]

Comparisons ==
    { [cached |-> [energy_wh |-> Some(1), duration_seconds |-> Some(1)],
       uncached |-> [energy_wh |-> Some(3), duration_seconds |-> Some(4)]],
      [cached |-> [energy_wh |-> Some(3), duration_seconds |-> Some(4)],
       uncached |-> [energy_wh |-> Some(1), duration_seconds |-> Some(1)]],
      [cached |-> NoMetrics, uncached |-> NoMetrics] }

Max(a, b) == IF a > b THEN a ELSE b

\* The result dict with the saving left as the signed difference (a fault
\* the properties must detect)
comparison_result_unclamped(th, day, cached_metrics, uncached_metrics) ==
    LET cached_energy == Get(cached_metrics.energy_wh, 0)
        uncached_energy == Get(uncached_metrics.energy_wh, 0)
        energy_saved == uncached_energy - cached_energy
    IN  [timestamp |-> day,
         prompt_length |-> PromptLength(th),
         cached_duration |-> Get(cached_metrics.duration_seconds, 0),
         uncached_duration |-> Get(uncached_metrics.duration_seconds, 0),
         cached_energy_wh |-> cached_energy,
         uncached_energy_wh |-> uncached_energy,
         energy_saved_wh |-> energy_saved,
         carbon_saved_kg |-> energy_saved * 475]

\* The result dict of run_comparison; carbon_saved_kg is in 1/1000 kg
comparison_result(th, day, cached_metrics, uncached_metrics) ==
    LET cached_energy == Get(cached_metrics.energy_wh, 0)
        uncached_energy == Get(uncached_metrics.energy_wh, 0)
        energy_saved == Max(0, uncached_energy - cached_energy)
    IN  [timestamp |-> day,
         prompt_length |-> PromptLength(th),
         cached_duration |-> Get(cached_metrics.duration_seconds, 0),
         uncached_duration |-> Get(uncached_metrics.duration_seconds, 0),
         cached_energy_wh |-> cached_energy,
         uncached_energy_wh |-> uncached_energy,
         energy_saved_wh |-> energy_saved,
         carbon_saved_kg |-> energy_saved * 475]

\* The file: a JSON list, or text json.load rejects (a file opened for
\* writing and not yet written, or written in part); records is what the
\* text holds of the list
EmptyLog == [kind |-> "json", records |-> <<>>]

Truncated == [kind |-> "unreadable", records |-> <<>>]

\* _load_results
load_results(file) == IF file.kind = "json" THEN file.records ELSE <<>>

\* _save_results, once json.dump has written the list
save_results(results) == [kind |-> "json", records |-> results]

\* ---------------------------------------------------------------- state
\* A thread in run_comparison: the result it built, the list it loaded and
\* extended, and the stored log at the time it loaded it
IdleRecorder ==
    [pc |-> "idle", result |-> <<>>, results |-> <<>>, before |-> <<>>]

\* ABTestManager.__init__ writes [] when there is no file
LogInit ==
    /\ results_file = EmptyLog
    /\ recorders = [th \in Recorders |-> IdleRecorder]
    /\ summary_ret = Unused
    /\ CacheUnused
    /\ ProbeUnused
    /\ AppUnused
    /\ WritersUnused
    /\ SavingsUnused

\* run_comparison up to results.append(result) in _append_result
LoadAndAppend(th, day, comparison) ==
    LET result == comparison_result(th, day, comparison.cached, comparison.uncached)
    IN  /\ recorders[th].pc \in {"idle", "returned"}
        /\ Len(results_file.records) < MaxRecords
        /\ recorders' = [recorders EXCEPT ![th] =
                            [pc |-> "_save_results", result |-> <<result>>,
                             results |-> Append(load_results(results_file), result),
                             before |-> results_file.records]]
        /\ UNCHANGED <<writers, savings_ret, results_file, summary_ret>>
        /\ UNCHANGED cache_vars
        /\ UNCHANGED probe_vars
        /\ UNCHANGED app_vars

\* open(self.ab_test_file, 'w') empties the file
OpenResults(th) ==
    /\ recorders[th].pc = "_save_results"
    /\ results_file' = Truncated
    /\ recorders' = [recorders EXCEPT ![th].pc = "json.dump"]
    /\ UNCHANGED <<writers, savings_ret, summary_ret>>
    /\ UNCHANGED cache_vars
    /\ UNCHANGED probe_vars
    /\ UNCHANGED app_vars

\* json.dump(results, f) and the close of the file
DumpResults(th) ==
    /\ recorders[th].pc = "json.dump"
    /\ results_file' = save_results(recorders[th].results)
    /\ recorders' = [recorders EXCEPT ![th].pc = "returned"]
    /\ UNCHANGED <<writers, savings_ret, summary_ret>>
    /\ UNCHANGED cache_vars
    /\ UNCHANGED probe_vars
    /\ UNCHANGED app_vars

\* The process is killed while a thread is writing: the file keeps the part
\* of the list that was written, and a new process finds it
CrashInDump(th, written) ==
    /\ recorders[th].pc = "json.dump"
    /\ written \in 0..Len(recorders[th].results)
    /\ results_file' = [kind |-> "unreadable",
                        records |-> SubSeq(recorders[th].results, 1, written)]
    /\ recorders' = [t \in Recorders |-> IdleRecorder]
    /\ UNCHANGED <<writers, savings_ret, summary_ret>>
    /\ UNCHANGED cache_vars
    /\ UNCHANGED probe_vars
    /\ UNCHANGED app_vars

LogNext ==
    \/ \E th \in Recorders, day \in Days, comparison \in Comparisons :
          LoadAndAppend(th, day, comparison)
    \/ \E th \in Recorders : OpenResults(th)
    \/ \E th \in Recorders : DumpResults(th)
    \/ \E th \in Recorders, written \in 0..MaxRecords : CrashInDump(th, written)

LogSpec == LogInit /\ [][LogNext]_vars

\* ---------------------------------------------- properties of the log
IsPrefix(a, b) == Len(a) <= Len(b) /\ SubSeq(b, 1, Len(a)) = a

\* No thread is inside _save_results
LogAtRest == \A th \in Recorders : recorders[th].pc \in {"idle", "returned"}

InLog(result) == \E i \in 1..Len(results_file.records) : results_file.records[i] = result

\* C27: once no record operation is in progress, the records the stored log
\* held when an operation began, readable or not, are the first records of
\* the log after it.
C27_AppendOnly ==
    LogAtRest =>
        \A th \in Recorders :
            recorders[th].pc = "returned"
                => IsPrefix(recorders[th].before, results_file.records)

\* C28: once two concurrent record operations have both returned, both
\* records are in the log.
C28_NoLostRecord ==
    (\A th \in Recorders : recorders[th].pc = "returned")
        => (results_file.kind = "json"
            /\ \A th \in Recorders : InLog(recorders[th].result[1]))

\* ================================================= summary of the log
\* The days argument of get_summary_stats
WindowDays == {1, 2}

NoSummaryCall == [op |-> "none"]

\* The rows df[df['timestamp'] > cutoff] keeps
rows_in_window(results, today, days) ==
    SelectSeq(results, LAMBDA r : r.timestamp > today - days)

Column(rows, Field(_)) == [i \in 1..Len(rows) |-> Field(rows[i])]

\* get_summary_stats: {} for no results and for no row in the window, else
\* total_saved; averages and equivalent_to are functions of the same rows
\* and are left out
get_summary_stats(file, today, days) ==
    LET results == load_results(file)
        df == rows_in_window(results, today, days)
        none == [energy_wh |-> 0, carbon_kg |-> 0, time_seconds |-> 0, queries |-> 0]
    IN  IF results = <<>> \/ df = <<>>
        THEN [empty |-> TRUE, total_saved |-> none]
        ELSE [empty |-> FALSE,
              total_saved |->
                  [energy_wh |-> SumSeq(Column(df, LAMBDA r : r.energy_saved_wh)),
                   carbon_kg |-> SumSeq(Column(df, LAMBDA r : r.carbon_saved_kg)),
                   time_seconds |->
                       SumSeq(Column(df, LAMBDA r : r.uncached_duration - r.cached_duration)),
                   queries |-> Len(df)]]

SummaryInit ==
    /\ results_file = EmptyLog
    /\ recorders = [th \in Recorders |-> IdleRecorder]
    /\ summary_ret = NoSummaryCall
    /\ CacheUnused
    /\ ProbeUnused
    /\ AppUnused
    /\ WritersUnused
    /\ SavingsUnused

\* run_comparison from its first line to its return, one caller at a time
RunComparison(th, day, comparison) ==
    LET result == comparison_result(th, day, comparison.cached, comparison.uncached)
    IN  /\ Len(results_file.records) < MaxRecords
        /\ results_file' = save_results(Append(load_results(results_file), result))
        /\ UNCHANGED <<writers, savings_ret, recorders, summary_ret>>
        /\ UNCHANGED cache_vars
        /\ UNCHANGED probe_vars
        /\ UNCHANGED app_vars

GetSummaryStats(today, days) ==
    /\ summary_ret' = [op |-> "get_summary_stats", today |-> today, days |-> days,
                       log |-> results_file.records,
                       result |-> get_summary_stats(results_file, today, days)]
    /\ UNCHANGED <<writers, savings_ret, recorders, results_file>>
    /\ UNCHANGED cache_vars
    /\ UNCHANGED probe_vars
    /\ UNCHANGED app_vars

SummaryNext ==
    \/ \E day \in Days, comparison \in Comparisons : RunComparison(1, day, comparison)
    \/ \E today \in Days, days \in WindowDays : GetSummaryStats(today, days)

SummarySpec == SummaryInit /\ [][SummaryNext]_vars

\* --------------------------------------------- properties of the summary
\* What a comparison saved: negative when the cached response cost more
EnergySaved(r) == r.uncached_energy_wh - r.cached_energy_wh

InWindow == rows_in_window(summary_ret.log, summary_ret.today, summary_ret.days)

Writers == {1, 2}

InsertPrompts == {"a", "b"}

InsertThreshold == 85

\* A thread in add_to_cache: where it is, what it inserts, the bytes
\* pickle.dump has produced and the file has not received yet, and what a
\* restart would have loaded when the insert began
IdleWriter ==
    [pc |-> "idle", prompt |-> None, response |-> None,
     buffer |-> AbsentFile, before |-> Construct(AbsentFile)]

InsertInit ==
    /\ cache_file \in {AbsentFile, save_cache(OldRunEmbeddings, OldRunResponses)}
    /\ similarity_threshold = InsertThreshold
    /\ embeddings = Construct(cache_file).embeddings
    /\ responses = Construct(cache_file).responses
    /\ ret = NoCall
    /\ writers = [w \in Writers |-> IdleWriter]
    /\ ProbeUnused
    /\ AppUnused
    /\ SavingsUnused
    /\ LogUnused

\* self.embeddings[prompt] = self.embed_prompt(prompt)
SetEmbedding(w, prompt, response) ==
    /\ writers[w].pc \in {"idle", "returned"}
    /\ prompt \in Keys(embeddings) \/ Len(embeddings) < MaxEntries
    /\ embeddings' = DictSet(embeddings, prompt, embed_prompt(prompt))
    /\ writers' = [writers EXCEPT ![w] =
                      [pc |-> "responses", prompt |-> prompt, response |-> response,
                       buffer |-> AbsentFile, before |-> Construct(cache_file)]]
    /\ UNCHANGED <<responses, cache_file>>
    /\ UNCHANGED <<similarity_threshold, ret>>
    /\ UNCHANGED <<savings_ret, results_file, recorders, summary_ret>>
    /\ UNCHANGED probe_vars
    /\ UNCHANGED app_vars

\* self.responses[prompt] = response
SetResponse(w) ==
    /\ writers[w].pc = "responses"
    /\ responses' = DictSet(responses, writers[w].prompt, writers[w].response)
    /\ writers' = [writers EXCEPT ![w].pc = "save_cache"]
    /\ UNCHANGED <<embeddings, cache_file>>
    /\ UNCHANGED <<similarity_threshold, ret>>
    /\ UNCHANGED <<savings_ret, results_file, recorders, summary_ret>>
    /\ UNCHANGED probe_vars
    /\ UNCHANGED app_vars

\* open(self.cache_file, 'wb') empties the file; pickle.load of an empty
\* file raises
OpenCache(w) ==
    /\ writers[w].pc = "save_cache"
    /\ cache_file' = CorruptFile
    /\ writers' = [writers EXCEPT ![w].pc = "pickle.dump"]
    /\ UNCHANGED <<embeddings, responses>>
    /\ UNCHANGED <<similarity_threshold, ret>>
    /\ UNCHANGED <<savings_ret, results_file, recorders, summary_ret>>
    /\ UNCHANGED probe_vars
    /\ UNCHANGED app_vars

\* pickle.dump serialises the two dicts as they are now into the buffer of
\* the file object
DumpCache(w) ==
    /\ writers[w].pc = "pickle.dump"
    /\ writers' = [writers EXCEPT ![w].pc = "close",
                                  ![w].buffer = save_cache(embeddings, responses)]
    /\ UNCHANGED <<embeddings, responses, cache_file>>
    /\ UNCHANGED <<similarity_threshold, ret>>
    /\ UNCHANGED <<savings_ret, results_file, recorders, summary_ret>>
    /\ UNCHANGED probe_vars
    /\ UNCHANGED app_vars

\* Leaving the with block flushes the buffer at offset 0 of the file; bytes
\* of another writer after the end of this pickle are never read
CloseCache(w) ==
    /\ writers[w].pc = "close"
    /\ cache_file' = writers[w].buffer
    /\ writers' = [writers EXCEPT ![w].pc = "returned"]
    /\ UNCHANGED <<embeddings, responses>>
    /\ UNCHANGED <<similarity_threshold, ret>>
    /\ UNCHANGED <<savings_ret, results_file, recorders, summary_ret>>
    /\ UNCHANGED probe_vars
    /\ UNCHANGED app_vars

\* The process is killed and started again: the file stays as it is and a
\* new SemanticCache is constructed on it
CrashAndRestart ==
    /\ \E w \in Writers : writers[w].pc \notin {"idle", "returned"}
    /\ embeddings' = Construct(cache_file).embeddings
    /\ responses' = Construct(cache_file).responses
    /\ writers' = [w \in Writers |-> IdleWriter]
    /\ UNCHANGED cache_file
    /\ UNCHANGED <<similarity_threshold, ret>>
    /\ UNCHANGED <<savings_ret, results_file, recorders, summary_ret>>
    /\ UNCHANGED probe_vars
    /\ UNCHANGED app_vars

InsertNext ==
    \/ \E w \in Writers, prompt \in InsertPrompts, response \in Responses :
          SetEmbedding(w, prompt, response)
    \/ \E w \in Writers : SetResponse(w)
    \/ \E w \in Writers : OpenCache(w)
    \/ \E w \in Writers : DumpCache(w)
    \/ \E w \in Writers : CloseCache(w)
    \/ CrashAndRestart

InsertSpec == InsertInit /\ [][InsertNext]_vars

\* ------------------------------------------- properties of the inserts
Inserting(w) == writers[w].pc \notin {"idle", "returned"}

HasEntry(store, prompt) ==
    prompt \in Keys(store.embeddings) /\ prompt \in Keys(store.responses)

\* C29: at most one thread is inside add_to_cache at a time, and once two
\* inserts have both returned the dicts in memory and the file, as a restart
\* would load it, hold both entries.
C29_InsertsSerialized ==
    /\ \A v, w \in Writers : (Inserting(v) /\ Inserting(w)) => v = w
    /\ (\A w \in Writers : writers[w].pc = "returned")
          => \A w \in Writers :
                /\ HasEntry([embeddings |-> embeddings, responses |-> responses],
                            writers[w].prompt)
                /\ HasEntry(Construct(cache_file), writers[w].prompt)

\* C30: while one thread alone is inside add_to_cache, a restart would load
\* either the entries the file held before the insert or the entries with
\* the insert made.
C30_RestartLoadsPreOrPost ==
    \A w \in Writers :
        (Inserting(w) /\ \A v \in Writers \ {w} : writers[v].pc = "idle")
            => \/ Construct(cache_file) = writers[w].before
               \/ Construct(cache_file)
                     = [embeddings |->
                            DictSet(writers[w].before.embeddings, writers[w].prompt,
                                    embed_prompt(writers[w].prompt)),
                        responses |->
                            DictSet(writers[w].before.responses, writers[w].prompt,
                                    writers[w].response)]

\* ============================================ the panes on one monitor
\* ChatbotApp holds one EnergyMonitor; process_cached_only and
\* process_uncached_only both start and stop it, each on a worker thread of
\* its own.
\* A call of a pane: where it is, whether it was left by an exception, the
\* time and the sample of its own start_monitoring, the time of its
\* end_monitoring, the start sample the monitor held then, and energy_data
NoSharedCall ==
    [pc |-> "idle", raised |-> FALSE, own_time |-> 0, own_power |-> NoSample,
     ended_at |-> 0, baseline |-> NoSample, energy_data |-> BaseResult(0)]

SharedInit ==
    /\ \E system \in Systems :
          /\ mon = FreshMonitor(system)
          /\ telemetry \in WindowTelemetry(system)
    /\ sample = NoSample
    /\ now = 0
    /\ readings_file = AbsentReadings
    /\ samplers = 0
    /\ starts = NoStarts
    /\ probe_ret = NoProbeCall
    /\ calls = [side \in Sides |-> NoSharedCall]
    /\ queries = 0
    /\ CacheUnused
    /\ LedgerUnused

\* self.energy_monitor.start_monitoring() of either handler; an exception
\* is caught by the handler, which returns
PaneStartMonitoring(side, t) ==
    LET smp == get_power_usage(t)
        raised == smp = RaisedOSError
    IN  /\ calls[side].pc \in {"idle", "returned"}
        /\ start_continuous_samplers(mon.system, samplers) <= MaxSamplers
        /\ telemetry' = t
        /\ mon' = start_monitoring(mon, now, smp)
        /\ readings_file' = IF raised THEN readings_file
                            ELSE start_continuous_file(mon.system, readings_file)
        /\ samplers' = IF raised THEN samplers
                       ELSE start_continuous_samplers(mon.system, samplers)
        /\ calls' = [calls EXCEPT ![side] =
                        [NoSharedCall EXCEPT !.pc = IF raised THEN "returned" ELSE "respond",
                                             !.raised = raised,
                                             !.own_time = now,
                                             !.own_power = smp]]
        /\ UNCHANGED <<now, sample, starts, probe_ret, queries>>
        /\ UNCHANGED cache_vars
        /\ UNCHANGED ledger_vars

\* The lookup and the generation between the two monitor calls
PaneRespond(side) ==
    /\ calls[side].pc = "respond"
    /\ calls' = [calls EXCEPT ![side].pc = "end_monitoring"]
    /\ UNCHANGED probe_vars
    /\ UNCHANGED queries
    /\ UNCHANGED cache_vars
    /\ UNCHANGED ledger_vars

\* energy_data = self.energy_monitor.end_monitoring()
PaneEndMonitoring(side, t) ==
    LET avg_power == stop_continuous_power_monitoring(mon.system, readings_file)
        ended == end_monitoring(mon, now, get_power_usage(t), avg_power)
    IN  /\ calls[side].pc = "end_monitoring"
        /\ telemetry' = t
        /\ mon' = ended.mon
        /\ samplers' = IF mon.system = "Darwin" /\ ~ended.raised THEN 0 ELSE samplers
        /\ calls' = [calls EXCEPT ![side].pc = "returned",
                                  ![side].raised = ended.raised,
                                  ![side].ended_at = now,
                                  ![side].baseline = mon.start_power,
                                  ![side].energy_data = ended.result]
        /\ UNCHANGED <<now, readings_file, sample, starts, probe_ret, queries>>
        /\ UNCHANGED cache_vars
        /\ UNCHANGED ledger_vars

SharedNext ==
    \/ \E side \in Sides, t \in WindowTelemetry(mon.system) : PaneStartMonitoring(side, t)
    \/ \E side \in Sides : PaneRespond(side)
    \/ \E side \in Sides, t \in WindowTelemetry(mon.system) : PaneEndMonitoring(side, t)
    \/ Tick

SharedSpec == SharedInit /\ [][SharedNext]_vars

\* C22: a call of either pane that returned without an exception reports
\* the time between its own start and its stop as duration, and its stop
\* used the sample of its own start as baseline.
C22_PanesShareNoProbeState ==
    \A side \in Sides :
        (calls[side].pc = "returned" /\ ~calls[side].raised) =>
            /\ calls[side].energy_data.duration_seconds
                   = calls[side].ended_at - calls[side].own_time
            /\ calls[side].baseline = calls[side].own_power

\* ================================================= two monitor objects
\* ChatbotApp, ABTestManager and EnergyDashboard each construct an
\* EnergyMonitor.  Every object uses the readings file
\* ~/.power_monitor/power_readings.txt and stops samplers with
\* pkill -f "top -l 86400", whoever spawned them.
Instances == {1, 2}

Other(i) == CHOOSE j \in Instances : j # i

\* Commands that do not raise: powermetrics working, the CPU load from top,
\* everything failing
TwoProbeTelemetry(system) ==
    {t \in WindowTelemetry(system) : t.nvidia_smi = "missing" /\ t.powermetrics # "missing"}

\* A line of the readings file and the object whose sampler wrote it
LineBy(i, line) == [has |-> line.has, v |-> line.v, by |-> i]

\* The last call: the object it was made on, whether the other object was
\* measuring, the other object's samplers and the readings file before and
\* after it, and the lines a stop averaged
NoTwoProbeCall ==
    [op |-> "__init__", instance |-> 0, other_measuring |-> FALSE,
     other_samplers |-> <<0, 0>>, file |-> <<AbsentReadings, AbsentReadings>>,
     averaged |-> <<>>]

TwoProbeInit ==
    /\ \E system \in Systems :
          /\ mon = [i \in Instances |-> FreshMonitor(system)]
          /\ telemetry \in TwoProbeTelemetry(system)
    /\ sample = NoSample
    /\ now = 0
    /\ readings_file = AbsentReadings
    /\ samplers = [i \in Instances |-> 0]
    /\ starts = {}
    /\ probe_ret = NoTwoProbeCall
    /\ CacheUnused
    /\ AppUnused
    /\ LedgerUnused

\* start_monitoring on object i
StartOn(i, t) ==
    LET system == mon[i].system
    IN  /\ start_continuous_samplers(system, samplers[i]) <= MaxSamplers
        /\ telemetry' = t
        /\ mon' = [mon EXCEPT ![i] = start_monitoring(@, now, get_power_usage(t))]
        /\ readings_file' = start_continuous_file(system, readings_file)
        /\ samplers' = [samplers EXCEPT ![i] = start_continuous_samplers(system, @)]
        /\ starts' = starts \cup {i}
        /\ probe_ret' = [op |-> "start_monitoring", instance |-> i,
                         other_measuring |-> Other(i) \in starts,
                         other_samplers |-> <<samplers[Other(i)], samplers'[Other(i)]>>,
                         file |-> <<readings_file, readings_file'>>,
                         averaged |-> <<>>]
        /\ UNCHANGED <<now, sample>>
        /\ UNCHANGED cache_vars
        /\ UNCHANGED app_vars
        /\ UNCHANGED ledger_vars

\* end_monitoring on object i: pkill ends the samplers of every object
EndOn(i, t) ==
    LET system == mon[i].system
        avg_power == stop_continuous_power_monitoring(system, readings_file)
        ended == end_monitoring(mon[i], now, get_power_usage(t), avg_power)
    IN  /\ telemetry' = t
        /\ mon' = [mon EXCEPT ![i] = ended.mon]
        /\ samplers' = IF system = "Darwin" THEN [j \in Instances |-> 0] ELSE samplers
        /\ starts' = starts \ {i}
        /\ probe_ret' = [op |-> "end_monitoring", instance |-> i,
                         other_measuring |-> Other(i) \in starts,
                         other_samplers |-> <<samplers[Other(i)], samplers'[Other(i)]>>,
                         file |-> <<readings_file, readings_file>>,
                         averaged |-> IF system = "Darwin" /\ readings_file.exists
                                      THEN SelectSeq(readings_file.lines, LAMBDA l : l.has)
                                      ELSE <<>>]
        /\ UNCHANGED <<now, readings_file, sample>>
        /\ UNCHANGED cache_vars
        /\ UNCHANGED app_vars
        /\ UNCHANGED ledger_vars

\* A sampler that object i spawned appends a line to the readings file
SamplerOfWrites(i, line) ==
    /\ samplers[i] > 0
    /\ readings_file.exists
    /\ Len(readings_file.lines) < MaxReadings
    /\ readings_file' = [readings_file EXCEPT !.lines = Append(@, LineBy(i, line))]
    /\ UNCHANGED <<telemetry, sample, mon, now, samplers, starts, probe_ret>>
    /\ UNCHANGED cache_vars
    /\ UNCHANGED app_vars
    /\ UNCHANGED ledger_vars

TwoProbeNext ==
    \/ \E i \in Instances : \E t \in TwoProbeTelemetry(mon[i].system) : StartOn(i, t)
    \/ \E i \in Instances : \E t \in TwoProbeTelemetry(mon[i].system) : EndOn(i, t)
    \/ \E i \in Instances, line \in ReadingLines : SamplerOfWrites(i, line)

TwoProbeSpec == TwoProbeInit /\ [][TwoProbeNext]_vars

\* C23: a start or a stop on one object while the other is measuring leaves
\* the other's samplers running and the readings file as it was, and the
\* readings a stop averages were written by samplers of its own object.
C23_InstancesIndependent ==
    /\ (probe_ret.op \in {"start_monitoring", "end_monitoring"} /\ probe_ret.other_measuring)
          => /\ probe_ret.other_samplers[2] = probe_ret.other_samplers[1]
             /\ probe_ret.file[2] = probe_ret.file[1]
    /\ probe_ret.op = "end_monitoring"
          => \A k \in 1..Len(probe_ret.averaged) :
                probe_ret.averaged[k].by = probe_ret.instance

\* ================================== further properties of the cache
\* C31: no cache object has a similarity threshold outside [0, 1].
C31_ThresholdInUnitInterval ==
    similarity_threshold >= 0 /\ similarity_threshold <= Scale

\* C36: find_similar_prompt and get_response leave the two dicts, their
\* order and the file as they were, and whatever happens the stored prompts
\* keep their order and none of them goes away.
C36_OnlyInsertMutates ==
    [][/\ ret'.op \in {"find_similar_prompt", "get_response"}
             => UNCHANGED <<embeddings, responses, cache_file>>
       /\ IsPrefix(KeyList(embeddings), KeyList(embeddings'))
       /\ Keys(responses) \subseteq Keys(responses')]_vars

C36_Witness ==
    /\ ret.op = "get_response"
    /\ ret.value # None
    /\ Len(embeddings) = MaxEntries

\* ========================================= commands that never return
\* Each telemetry command may also hang: "hangs" is a command that never
\* exits.  The commands behave the same way at every call.  subprocess.run with timeout=3 turns that into TimeoutExpired;
\* without a timeout the call never returns.
HangTelemetry ==
    [system : Systems,
     nvidia_smi : {"missing", "nonzero", "ok", "hangs"},
     gpu_query : {"nonzero", "ok", "hangs"},
     powermetrics : {"missing", "nonzero", "ok", "hangs"},
     smc : {"missing", "nonzero", "ok", "hangs"},
     top : {"nonzero", "ok", "hangs"},
     vm_stat : {"nonzero", "ok", "hangs"}]

\* Only the powermetrics run passes timeout= (line 118)
AfterTimeouts(t) ==
    [t EXCEPT !.powermetrics = IF @ = "hangs" THEN "timeout" ELSE @]

\* _get_macos_power_reading never returns: the top fallback after a timeout,
\* smc after a refused powermetrics, top after a missing smc
get_macos_power_reading_blocks(t) ==
    CASE t.powermetrics = "hangs" -> t.top = "hangs"
      [] t.powermetrics = "nonzero" ->
            \/ t.smc = "hangs"
            \/ t.smc = "missing" /\ t.top = "hangs"
      [] OTHER -> FALSE

\* _get_power_usage never returns: the bare nvidia-smi run, the GPU query,
\* the macOS reading, then _get_cpu_usage (top) and _get_memory_usage (vm_stat)
get_power_usage_blocks(t) ==
    \/ t.nvidia_smi = "hangs"
    \/ t.nvidia_smi = "ok" /\ t.gpu_query = "hangs"
    \/ /\ ~(t.nvidia_smi = "ok" /\ t.gpu_query = "ok")
       /\ t.system = "Darwin"
       /\ \/ get_macos_power_reading_blocks(t)
          \/ /\ ~get_macos_power_reading(AfterTimeouts(t)).raised
             /\ t.top = "hangs" \/ t.vm_stat = "hangs"

MonitorCalls == {"start_monitoring", "end_monitoring"}

TimeoutInit ==
    /\ telemetry \in HangTelemetry
    /\ sample = NoSample
    /\ probe_ret = [op |-> "__init__", pc |-> "returned"]
    /\ mon = Unused /\ now = Unused /\ readings_file = Unused /\ samplers = Unused
    /\ starts = Unused
    /\ CacheUnused
    /\ AppUnused
    /\ LedgerUnused

\* start_monitoring or end_monitoring is called and reaches _get_power_usage;
\* sample is the sample of this call, none yet
CallMonitor(op) ==
    /\ probe_ret.pc = "returned"
    /\ probe_ret' = [op |-> op, pc |-> "_get_power_usage"]
    /\ sample' = NoSample
    /\ UNCHANGED <<telemetry, mon, now, readings_file, samplers, starts>>
    /\ UNCHANGED cache_vars
    /\ UNCHANGED app_vars
    /\ UNCHANGED ledger_vars

\* _get_power_usage returns and the call with it
PowerUsageReturns ==
    /\ probe_ret.pc = "_get_power_usage"
    /\ ~get_power_usage_blocks(telemetry)
    /\ sample' = get_power_usage(AfterTimeouts(telemetry))
    /\ probe_ret' = [probe_ret EXCEPT !.pc = "returned"]
    /\ UNCHANGED <<telemetry, mon, now, readings_file, samplers, starts>>
    /\ UNCHANGED cache_vars
    /\ UNCHANGED app_vars
    /\ UNCHANGED ledger_vars

TimeoutNext ==
    \/ \E op \in MonitorCalls : CallMonitor(op)
    \/ PowerUsageReturns

\* A call that can return does
TimeoutSpec == TimeoutInit /\ [][TimeoutNext]_vars /\ WF_vars(PowerUsageReturns)

\* C32: every start_monitoring and end_monitoring call returns, whichever
\* telemetry commands hang.
C32_CallsTerminate ==
    (probe_ret.pc = "_get_power_usage") ~> (probe_ret.pc = "returned")

\* ==================================================== energy usage log
\* Model of log_energy_usage and get_energy_summary.  results_file holds
\* the two log files: json is energy_usage.json (a list of entries, or text
\* json.load rejects, with the entries that text still holds), csv the rows
\* of energy_usage.csv under its header; given is, row by row, the
\* arguments of the call that wrote the row.
Models == {None, "m1", "m2"}

\* energy_data: {} ; a dict with the power keys; one with duration only
\* (duration in s, energy in J and Wh)
NoEnergyData ==
    [empty |-> TRUE, duration_seconds |-> Nothing, energy_joules |-> Nothing,
     energy_wh |-> Nothing]

FullEnergyData ==
    [empty |-> FALSE, duration_seconds |-> Some(2), energy_joules |-> Some(20),
     energy_wh |-> Some(1)]

DurationOnly ==
    [empty |-> FALSE, duration_seconds |-> Some(4), energy_joules |-> Nothing,
     energy_wh |-> Nothing]

\* The calls of log_energy_usage: with and without energy data, with and
\* without a model, with an empty prompt
UsageCalls ==
    { [energy_data |-> FullEnergyData, model |-> "m1", prompt |-> "ab", response |-> "ab"],
      [energy_data |-> DurationOnly, model |-> "m2", prompt |-> "", response |-> "ab"],
      [energy_data |-> FullEnergyData, model |-> None, prompt |-> "ab", response |-> "ab"],
      [energy_data |-> NoEnergyData, model |-> "m1", prompt |-> "ab", response |-> "ab"] }

StrLen(str) == IF str = "" THEN 0 ELSE 2

\* len(prompt) if prompt else None
length_or_none(str) == IF str = "" THEN Nothing ELSE Some(StrLen(str))

\* csv.writer writes None as the empty string and a number as its repr;
\* the reader gives the text back, and the summary skips empty text and
\* applies float() to the rest
CsvCell(x) == IF x.has THEN [text |-> "repr", number |-> x.v] ELSE [text |-> "", number |-> 0]

CsvModel(model) == IF model = None THEN "" ELSE model

CellFloat(cell) == IF cell.text = "" THEN 0 ELSE cell.number

log_entry(day, energy_data, model, prompt, response) ==
    [timestamp |-> day, energy_data |-> energy_data, model |-> model,
     prompt_length |-> length_or_none(prompt),
     response_length |-> length_or_none(response)]

csv_row(day, energy_data, model, prompt, response) ==
    [timestamp |-> day, model |-> CsvModel(model),
     prompt_length |-> CsvCell(length_or_none(prompt)),
     response_length |-> CsvCell(length_or_none(response)),
     duration_seconds |-> CsvCell(energy_data.duration_seconds),
     energy_joules |-> CsvCell(energy_data.energy_joules),
     energy_wh |-> CsvCell(energy_data.energy_wh)]

\* existing_data: [] for a missing file, for text json.load rejects and for
\* JSON that is not a list
existing_data(json) == IF json.kind = "list" THEN json.entries ELSE <<>>

\* The rows the summary keeps: entry_time >= cutoff_date, and the model
\* when one is given
filtered_data(csv, model, today, days) ==
    SelectSeq(csv, LAMBDA entry :
        /\ entry.timestamp >= today - days
        /\ model = None \/ entry.model = model)

\* A variant that ignores the model (a fault the properties must detect)
get_energy_summary_any_model(csv, model, today, days) ==
    LET rows == filtered_data(csv, None, today, days)
    IN  [total_queries |-> Len(rows),
         total_energy_joules |->
             SumSeq([i \in 1..Len(rows) |-> CellFloat(rows[i].energy_joules)]),
         total_energy_wh |->
             SumSeq([i \in 1..Len(rows) |-> CellFloat(rows[i].energy_wh)]),
         total_duration_seconds |->
             SumSeq([i \in 1..Len(rows) |-> CellFloat(rows[i].duration_seconds)])]

\* get_energy_summary: the count and the totals (the averages and by_model
\* are computed from the same rows)
get_energy_summary(csv, model, today, days) ==
    LET rows == filtered_data(csv, model, today, days)
    IN  [total_queries |-> Len(rows),
         total_energy_joules |->
             SumSeq([i \in 1..Len(rows) |-> CellFloat(rows[i].energy_joules)]),
         total_energy_wh |->
             SumSeq([i \in 1..Len(rows) |-> CellFloat(rows[i].energy_wh)]),
         total_duration_seconds |->
             SumSeq([i \in 1..Len(rows) |-> CellFloat(rows[i].duration_seconds)])]

\* An earlier process: one call logged, and possibly killed while a later
\* call was rewriting the JSON file
OldUsage ==
    [day |-> 0, energy_data |-> FullEnergyData, model |-> "m1", prompt |-> "ab",
     response |-> "ab"]

OldEntry ==
    log_entry(OldUsage.day, OldUsage.energy_data, OldUsage.model, OldUsage.prompt,
              OldUsage.response)

OldRow ==
    csv_row(OldUsage.day, OldUsage.energy_data, OldUsage.model, OldUsage.prompt,
            OldUsage.response)

UsageLogs ==
    { [json |-> [kind |-> "absent", entries |-> <<>>], csv |-> <<>>, given |-> <<>>],
      [json |-> [kind |-> "list", entries |-> <<OldEntry>>], csv |-> <<OldRow>>,
       given |-> <<OldUsage>>],
      [json |-> [kind |-> "unreadable", entries |-> <<OldEntry>>], csv |-> <<OldRow>>,
       given |-> <<OldUsage>>] }

NoUsageCall == [op |-> "__init__"]

UsageInit ==
    /\ results_file \in UsageLogs
    /\ summary_ret = NoUsageCall
    /\ recorders = Unused
    /\ writers = Unused
    /\ savings_ret = Unused
    /\ CacheUnused
    /\ ProbeUnused
    /\ AppUnused

LogEnergyUsage(day, energy_data, model, prompt, response) ==
    /\ Len(results_file.csv) < MaxRecords
    /\ results_file' =
          IF energy_data.empty
          THEN results_file
          ELSE [json |-> [kind |-> "list",
                          entries |-> Append(existing_data(results_file.json),
                                             log_entry(day, energy_data, model, prompt,
                                                       response))],
                csv |-> Append(results_file.csv,
                               csv_row(day, energy_data, model, prompt, response)),
                given |-> Append(results_file.given,
                                 [day |-> day, energy_data |-> energy_data,
                                  model |-> model, prompt |-> prompt,
                                  response |-> response])]
    /\ summary_ret' = [op |-> "log_energy_usage", before |-> results_file,
                       day |-> day, energy_data |-> energy_data, model |-> model,
                       prompt |-> prompt, response |-> response]
    /\ UNCHANGED <<writers, savings_ret, recorders>>
    /\ UNCHANGED cache_vars
    /\ UNCHANGED probe_vars
    /\ UNCHANGED app_vars

GetEnergySummary(model, today, days) ==
    /\ summary_ret' = [op |-> "get_energy_summary", model |-> model, today |-> today,
                       days |-> days, log |-> results_file,
                       result |-> get_energy_summary(results_file.csv, model, today, days)]
    /\ UNCHANGED <<writers, savings_ret, recorders, results_file>>
    /\ UNCHANGED cache_vars
    /\ UNCHANGED probe_vars
    /\ UNCHANGED app_vars

UsageNext ==
    \/ \E day \in Days, call \in UsageCalls :
          LogEnergyUsage(day, call.energy_data, call.model, call.prompt, call.response)
    \/ \E model \in Models, today \in Days, days \in WindowDays :
          GetEnergySummary(model, today, days)

UsageSpec == UsageInit /\ [][UsageNext]_vars

\* ------------------------------------------ properties of the usage log
\* C33: a call with energy data adds one row and one entry, with the given
\* model and the lengths of the prompt and the response, after the rows and
\* the entries the files held, readable or not; a call with {} leaves both
\* files as they were.
C33_AppendsOneRowAndEntry ==
    summary_ret.op = "log_energy_usage" =>
        LET before == summary_ret.before
            entry == results_file.json.entries[Len(results_file.json.entries)]
            row == results_file.csv[Len(results_file.csv)]
        IN  IF summary_ret.energy_data.empty
            THEN results_file = before
            ELSE /\ Len(results_file.csv) = Len(before.csv) + 1
                 /\ IsPrefix(before.csv, results_file.csv)
                 /\ results_file.json.kind = "list"
                 /\ Len(results_file.json.entries) = Len(before.json.entries) + 1
                 /\ IsPrefix(before.json.entries, results_file.json.entries)
                 /\ entry.model = summary_ret.model
                 /\ entry.prompt_length = Some(StrLen(summary_ret.prompt))
                 /\ entry.response_length = Some(StrLen(summary_ret.response))
                 /\ row.model = CsvModel(summary_ret.model)

\* The logged calls a summary has to count: in the window, of the model
Counted ==
    SelectSeq(summary_ret.log.given, LAMBDA g :
        /\ g.day >= summary_ret.today - summary_ret.days
        /\ summary_ret.model = None \/ g.model = summary_ret.model)

\* C34: a summary counts the logged calls whose day is in the trailing
\* window and whose model is the one asked for (any model when none is),
\* its totals are the sums of their energy and duration, and a call logged
\* at the day of the summary is among them.
C34_SummaryCountsWindowRows ==
    summary_ret.op = "get_energy_summary" =>
        /\ summary_ret.result.total_queries = Len(Counted)
        /\ summary_ret.result.total_energy_joules
               = SumSeq([i \in 1..Len(Counted) |-> GetOr0(Counted[i].energy_data.energy_joules)])
        /\ summary_ret.result.total_energy_wh
               = SumSeq([i \in 1..Len(Counted) |-> GetOr0(Counted[i].energy_data.energy_wh)])
        /\ summary_ret.result.total_duration_seconds
               = SumSeq([i \in 1..Len(Counted) |-> GetOr0(Counted[i].energy_data.duration_seconds)])
        /\ \A i \in 1..Len(summary_ret.log.given) :
               (/\ summary_ret.log.given[i].day = summary_ret.today
                /\ summary_ret.model \in {None, summary_ret.log.given[i].model})
                   => summary_ret.result.total_queries >= 1

\* A summary for one model over a log that also holds a row of another
\* model and a row older than the window
C34_Witness ==
    /\ summary_ret.op = "get_energy_summary"
    /\ summary_ret.model # None
    /\ summary_ret.result.total_queries >= 1
    /\ summary_ret.result.total_energy_wh > 0
    /\ summary_ret.result.total_queries < Len(summary_ret.log.csv)
    /\ \E i \in 1..Len(summary_ret.log.given) :
           /\ summary_ret.log.given[i].day >= summary_ret.today - summary_ret.days
           /\ summary_ret.log.given[i].model # summary_ret.model

\* ================================ further properties of the window
\* C35: a stop that no start precedes since the stop before it reports
\* duration 0 and none of the power and energy fields.
C35_StopReturnsToIdle ==
    (Stopped /\ probe_ret.window.calls = 0) =>
        /\ probe_ret.result.duration_seconds = 0
        /\ probe_ret.result.keys \cap PowerKeys = {}

\* ========================= further properties of the comparison log
\* C37: every record of the log has energy_saved_wh = max(0, uncached
\* energy - cached energy) and carbon_saved_kg = energy_saved_wh * 475 /
\* 1000, neither negative, and the total energy and carbon of a summary are
\* not negative.
C37_SavingsNeverNegative ==
    /\ \A i \in 1..Len(results_file.records) :
          LET r == results_file.records[i]
          IN  /\ r.energy_saved_wh = Max(0, r.uncached_energy_wh - r.cached_energy_wh)
              /\ r.energy_saved_wh >= 0
              /\ r.carbon_saved_kg = r.energy_saved_wh * 475
              /\ r.carbon_saved_kg >= 0
    /\ summary_ret.op = "get_summary_stats" =>
          /\ summary_ret.result.total_saved.energy_wh >= 0
          /\ summary_ret.result.total_saved.carbon_kg >= 0

\* A summary over a comparison whose cached response cost more and one
\* whose cached response cost less
C37_Witness ==
    /\ summary_ret.op = "get_summary_stats"
    /\ ~summary_ret.result.empty
    /\ summary_ret.result.total_saved.queries = 2
    /\ summary_ret.result.total_saved.energy_wh > 0
    /\ \E i \in 1..Len(summary_ret.log) :
          summary_ret.log[i].cached_energy_wh > summary_ret.log[i].uncached_energy_wh

\* ======================================= further properties of the panes
\* C39: a call that has returned leaves no measurement window open: every
\* start_monitoring it made was followed by an end_monitoring before it
\* returned, whatever was raised in between.
C39_StartAlwaysStopped ==
    \A side \in Sides :
        calls[side].pc = "returned" => calls[side].window # "open"

\* ===================================== repeated calls of the cached pane
\* ------------------------------------------------------------- universe
\* A blank message, two messages and one whose embedding has no direction
RepeatMessages == {" ", "a", "c", "z"}

\* What a call of the monitor raises in, if anything
RaisePoints == {"nowhere", "start_monitoring", "end_monitoring"}

\* ---------------------------------------------------------------- state
\* calls holds the messages the cached pane has answered so far and the
\* record of its last call: what the lookup found, how often the generator
\* was called, the number of cache entries when the call began, and whether
\* the message had been answered before
NoRepeatCall ==
    [message |-> "", lookup |-> "none", generated |-> 0, response |-> None,
     raised |-> FALSE, entries |-> 0, repeat |-> FALSE]

RepeatInit ==
    /\ cache_file \in InitialFiles
    /\ similarity_threshold \in Thresholds
    /\ embeddings = Construct(cache_file).embeddings
    /\ responses = Construct(cache_file).responses
    /\ ret = NoCall
    /\ calls = [answered |-> {}, last |-> NoRepeatCall]
    /\ queries = Unused
    /\ ProbeUnused
    /\ LedgerUnused

\* `if not cached_response:` with the test left out (a fault the properties
\* must detect)
needs_generation_always(cached_response) == TRUE

\* `if not cached_response:`
needs_generation(cached_response) == ~Truthy(cached_response)

\* process_cached_only(message, history) from call to return; outcome is what
\* the generator returns if it is called
ProcessCachedOnly(message, outcome, raises) ==
    \E cached_response \in
          {get_response(embeddings, responses, similarity_threshold, message)} :
        LET blank == Strip(message) = ""
            looks_up == ~blank /\ raises # "start_monitoring"
            lookup == IF ~looks_up THEN "none"
                      ELSE IF cached_response = KeyError THEN "raised"
                      ELSE IF Truthy(cached_response) THEN "hit"
                      ELSE "miss"
            generates == looks_up /\ lookup # "raised" /\ needs_generation(cached_response)
            response == IF generates THEN outcome
                        ELSE IF lookup = "hit" THEN cached_response
                        ELSE None
            inserts == generates /\ Truthy(outcome)
            raised == ~blank /\ (raises # "nowhere" \/ lookup = "raised")
            answers == ~blank /\ ~raised /\ Truthy(response)
        IN  /\ embeddings' = IF inserts
                             THEN DictSet(embeddings, message, embed_prompt(message))
                             ELSE embeddings
            /\ Len(embeddings') <= MaxEntries
            /\ responses' = IF inserts THEN DictSet(responses, message, outcome)
                            ELSE responses
            /\ cache_file' = IF inserts THEN save_cache(embeddings', responses')
                             ELSE cache_file
            /\ calls' = [answered |-> IF answers THEN calls.answered \cup {message}
                                      ELSE calls.answered,
                         last |-> [message |-> message, lookup |-> lookup,
                                   generated |-> IF generates THEN 1 ELSE 0,
                                   response |-> response, raised |-> raised,
                                   entries |-> Len(embeddings),
                                   repeat |-> message \in calls.answered]]
            /\ UNCHANGED <<similarity_threshold, ret, queries>>
            /\ UNCHANGED probe_vars
            /\ UNCHANGED ledger_vars

RepeatNext ==
    \E message \in RepeatMessages, outcome \in Generated, raises \in RaisePoints :
        ProcessCachedOnly(message, outcome, raises)

RepeatSpec == RepeatInit /\ [][RepeatNext]_vars

\* ------------------------------------------ properties of repeated calls
AnsweredFromCache(call) ==
    /\ call.generated = 0
    /\ Len(embeddings) = call.entries
    /\ call.lookup \in {"hit", "none"}

\* C38: with a threshold of at most 1.0, a call of the cached pane for a
\* message the pane has answered before does not call the generator and
\* leaves the number of cache entries as it was.
C38_RepeatAnsweredFromCache ==
    (similarity_threshold <= Scale /\ calls.last.repeat)
        => AnsweredFromCache(calls.last)

\* C38 as the code has it: the same for a message whose embedding is not the
\* zero vector; the lookup of the repeated call finds a response unless
\* start_monitoring raised before it.
C38_RepeatOfNonZeroAnsweredFromCache ==
    (/\ similarity_threshold <= Scale
     /\ calls.last.repeat
     /\ Norm(embed_prompt(calls.last.message)) # 0)
        => AnsweredFromCache(calls.last)

\* A message answered by the generator and stored, then answered again from
\* the cache at threshold 1.0
C38_Witness ==
    /\ similarity_threshold = Scale
    /\ calls.last.repeat
    /\ calls.last.lookup = "hit"
    /\ calls.last.message = "a"
    /\ KeyList(embeddings) = <<"a">>

\* ================================================ cumulative statistics
\* ---------------------------------------------------------------- bounds
\* Counted queries of one pane
MaxCounted == 2

\* ------------------------------------------------------------- universe
StatsMessages == {" ", "a"}

\* energy_data when the application has no monitor
EmptyEnergyData == [BaseResult(0) EXCEPT !.keys = {}]

\* What end_monitoring returns: a window without power data and two windows
\* with it
MeasuredEnergyData ==
    { BaseResult(2),
      WithPower(BaseResult(2), Some(3600), Some(3600), 3600),
      WithPower(BaseResult(3), Some(3600), Some(7200), 5400) }

\* energy_data.get('duration_seconds', 0)
DurationOr0(energy_data) ==
    IF "duration_seconds" \in energy_data.keys THEN energy_data.duration_seconds ELSE 0

\* ---------------------------------------------------------------- state
\* queries holds cumulative_stats and query_stats; calls the configuration
\* and the record of the last call of either pane
NoStats ==
    [cumulative_stats |->
        [side \in Sides |-> [total_energy |-> 0, total_time |-> 0, queries |-> 0]],
     query_stats |-> [side \in Sides |-> <<>>]]

NoStatsCall ==
    [side |-> "none", message |-> "", generated |-> 0, response |-> None,
     raised |-> FALSE]

StatsInit ==
    /\ cache_file = AbsentFile
    /\ similarity_threshold = InsertThreshold
    /\ embeddings = Construct(cache_file).embeddings
    /\ responses = Construct(cache_file).responses
    /\ ret = NoCall
    /\ \E enable_monitoring \in BOOLEAN :
          calls = [enable_monitoring |-> enable_monitoring, last |-> NoStatsCall]
    /\ queries = NoStats
    /\ ProbeUnused
    /\ LedgerUnused

\* _update_cumulative_stats keeping no entry of the query (a fault the
\* properties must detect)
update_cumulative_stats_no_entry(stats, energy_data, mode) ==
    IF energy_data.keys = {}
    THEN stats
    ELSE [stats EXCEPT
            !.cumulative_stats[mode].total_energy = @ + GetOr0(energy_data.energy_wh),
            !.cumulative_stats[mode].total_time = @ + DurationOr0(energy_data),
            !.cumulative_stats[mode].queries = @ + 1]

\* _update_cumulative_stats(energy_data, mode)
update_cumulative_stats(stats, energy_data, mode) ==
    IF energy_data.keys = {}
    THEN stats
    ELSE [stats EXCEPT
            !.cumulative_stats[mode].total_energy = @ + GetOr0(energy_data.energy_wh),
            !.cumulative_stats[mode].total_time = @ + DurationOr0(energy_data),
            !.cumulative_stats[mode].queries = @ + 1,
            !.query_stats[mode] =
                Append(@, [energy_wh |-> GetOr0(energy_data.energy_wh),
                           power_watts |-> GetOr0(energy_data.avg_power_watts),
                           duration_seconds |-> DurationOr0(energy_data)])]

\* energy_data of a call: what end_monitoring returned, {} without a monitor
EnergyDataOf(measured) ==
    IF calls.enable_monitoring THEN measured ELSE EmptyEnergyData

\* The click handler of the cached pane, process_cached_only(message,
\* history) from call to return; raises tells where the monitor raises
ProcessCachedAndUpdate(message, outcome, measured, raises) ==
    \E cached_response \in
          {get_response(embeddings, responses, similarity_threshold, message)} :
        LET blank == Strip(message) = ""
            raises_in == IF calls.enable_monitoring THEN raises ELSE "nowhere"
            looks_up == ~blank /\ raises_in # "start_monitoring"
            generates == looks_up /\ cached_response # KeyError
                            /\ needs_generation(cached_response)
            response == IF generates THEN outcome
                        ELSE IF looks_up /\ cached_response # KeyError
                        THEN cached_response
                        ELSE None
            inserts == generates /\ Truthy(outcome)
            raised == ~blank /\ (raises_in # "nowhere"
                                    \/ (looks_up /\ cached_response = KeyError))
            counts == ~blank /\ ~raised /\ Truthy(response)
        IN  /\ embeddings' = IF inserts
                             THEN DictSet(embeddings, message, embed_prompt(message))
                             ELSE embeddings
            /\ responses' = IF inserts THEN DictSet(responses, message, outcome)
                            ELSE responses
            /\ cache_file' = IF inserts THEN save_cache(embeddings', responses')
                             ELSE cache_file
            /\ queries' = IF counts
                          THEN update_cumulative_stats(queries, EnergyDataOf(measured),
                                                       "cached")
                          ELSE queries
            /\ queries'.cumulative_stats["cached"].queries <= MaxCounted
            /\ calls' = [calls EXCEPT !.last =
                            [side |-> "cached", message |-> message,
                             generated |-> IF generates THEN 1 ELSE 0,
                             response |-> response, raised |-> raised]]
            /\ UNCHANGED <<similarity_threshold, ret>>
            /\ UNCHANGED probe_vars
            /\ UNCHANGED ledger_vars

\* The click handler of the uncached pane, process_uncached_only(message,
\* history) from call to return
ProcessUncachedAndUpdate(message, outcome, measured, raises) ==
    LET blank == Strip(message) = ""
        raises_in == IF calls.enable_monitoring THEN raises ELSE "nowhere"
        generates == ~blank /\ raises_in # "start_monitoring"
        response == IF generates THEN outcome ELSE None
        raised == ~blank /\ raises_in # "nowhere"
        counts == ~blank /\ ~raised /\ Truthy(response)
    IN  /\ queries' = IF counts
                      THEN update_cumulative_stats(queries, EnergyDataOf(measured),
                                                   "uncached")
                      ELSE queries
        /\ queries'.cumulative_stats["uncached"].queries <= MaxCounted
        /\ calls' = [calls EXCEPT !.last =
                        [side |-> "uncached", message |-> message,
                         generated |-> IF generates THEN 1 ELSE 0,
                         response |-> response, raised |-> raised]]
        /\ UNCHANGED cache_vars
        /\ UNCHANGED probe_vars
        /\ UNCHANGED ledger_vars

StatsNext ==
    \/ \E message \in StatsMessages, outcome \in Generated,
          measured \in MeasuredEnergyData, raises \in RaisePoints :
          ProcessCachedAndUpdate(message, outcome, measured, raises)
    \/ \E message \in StatsMessages, outcome \in Generated,
          measured \in MeasuredEnergyData, raises \in RaisePoints :
          ProcessUncachedAndUpdate(message, outcome, measured, raises)

StatsSpec == StatsInit /\ [][StatsNext]_vars

\* ----------------------------------------- properties of the statistics
\* The statistics of a side agree with its per-query entries
StatsAgree(side) ==
    LET totals == queries.cumulative_stats[side]
        entries == queries.query_stats[side]
    IN  /\ totals.queries = Len(entries)
        /\ totals.total_energy = SumSeq([i \in 1..Len(entries) |-> entries[i].energy_wh])
        /\ totals.total_time =
              SumSeq([i \in 1..Len(entries) |-> entries[i].duration_seconds])

\* The call just made had a blank message or a generator that failed
BlankOrFailed(call) ==
    \/ Strip(call.message) = ""
    \/ call.generated = 1 /\ call.response = None

\* C40: for each side the cumulative number of queries is the number of its
\* per-query entries and the cumulative energy and time are the sums over
\* those entries; a call with a blank message or a failed generator changes
\* the statistics of neither side.
C40_StatsMatchEntries ==
    /\ [](\A side \in Sides : StatsAgree(side))
    /\ [][BlankOrFailed(calls'.last) => queries' = queries]_vars

\* Two counted queries of different energy on the cached side and one on
\* the uncached side, the last call one whose generator failed
C40_Witness ==
    /\ Len(queries.query_stats["cached"]) = 2
    /\ queries.query_stats["cached"][1].energy_wh
          # queries.query_stats["cached"][2].energy_wh
    /\ queries.cumulative_stats["cached"].total_energy > 0
    /\ Len(queries.query_stats["uncached"]) = 1
    /\ calls.last.generated = 1
    /\ calls.last.response = None

====
